---- MODULE Spec2Model ----
(***************************************************************************)
(* Hybrid code-retrieval and reranking engine of wiki-generator:           *)
(* the 3-stage reranking pipeline (lib/rag/reranking.ts), the RAG index    *)
(* (build / search), the batch embedder and the code graph.                *)
(*                                                                         *)
(* Conventions                                                             *)
(*  - an optional value (chunk.embedding, a settled promise) is a sequence *)
(*    of length 0 (absent) or 1 (present);                                 *)
(*  - numbers[] embeddings are tuples of integers; scores are kept exact:  *)
(*    a cosine similarity is the triple (dotProduct, normA, normB), an LLM *)
(*    score an integer, an RRF score a fraction;                           *)
(*  - Array.prototype.sort is stable (ES2019), modelled by a stable        *)
(*    insertion sort.                                                      *)
(***************************************************************************)
EXTENDS Integers, Sequences, FiniteSets, TLC

VARIABLES
  \* ---- rerankResults (lib/rag/reranking.ts) ----
  rpc,          \* position of the pipeline: "idle", "stage3", "done", "threw"
  rargs,        \* arguments of the running rerankResults call
  stage1,       \* hybrid candidates
  stage2,       \* after rerankByEmbedding
  stage3,       \* after rerankByLLM
  rankCalls,    \* one entry per codeRankerAgent.execute call issued by stage 3
  rankPromises, \* value of each mapped promise of Promise.all (option)
  scored,       \* the array Promise.all resolved with
  \* ---- CodeGraph (lib/rag/code-graph) ----
  gchunks,      \* the chunks the graph was constructed from
  chunksById,   \* Map: chunk.id -> chunk
  callEdges,    \* Map: chunk.id -> function names it calls
  definitions,  \* Map: function name -> chunk ids that define it
  gpc,          \* "idle", "bfs" (inside findRelated's loop), "done"
  gargs,        \* the running / last graph query
  queue,        \* findRelated: BFS queue of {id, depth}
  visited,      \* findRelated: visited ids
  related,      \* findRelated: {chunk, depth} found so far
  gresult,      \* value the query returned
  enqueued,     \* history: ids pushed on the queue, in order
  dequeued,     \* history: ids shifted off the queue, in order
  \* ---- RAGIndex (lib/rag/index) ----
  thisConfig,   \* this.config (option: absent while no index is constructed)
  thisChunks,   \* this.chunks
  codeBM25,     \* this.codeBM25 (option)
  textBM25,     \* this.textBM25 (option)
  hybridSearch, \* this.hybridSearch (option)
  buildCalled,  \* history: build() has been called on this index
  \* ---- a running build(), with the embedChunks call inside it ----
  bpc,          \* "idle", "compress", "embed", "done", "rejected"
  allChunks,    \* build: allChunks (compressChunks mutates it in place)
  ci,           \* compressChunks: index of the chunk whose summary is awaited
  compressedCount, \* compressChunks: its counter "compressed"
  batchTasks,   \* embedChunks: batchTasks
  batchCalls,   \* embedChunks: one embedMany call per batch task
  wave,         \* embedChunks: i of the wave loop
  batchResults, \* embedChunks: results
  berror,       \* the error build() rejected with (option)
  bprev,        \* history: the index fields when build() was called
  \* ---- a running search() / searchWithBreakdown() ----
  spc,          \* "idle", "embedding", "reranking", "returned", "threw"
  sargs,        \* the running query (option)
  sissued,      \* history: external calls the running query has issued
  sused,        \* history: the HybridSearch object the query searched (option)
  sresult,      \* value the query resolved with (option)
  serror,       \* error the query rejected with (option)
  \* ---- a direct call of one exported library function ----
  callee,       \* name of the function called, "none" between calls
  callArgs,     \* its arguments
  callOutcome   \* [threw, value]: the value returned or the error thrown

rerankVars == <<rpc, rargs, stage1, stage2, stage3, rankCalls, rankPromises, scored>>

graphVars == <<gchunks, chunksById, callEdges, definitions, gpc, gargs, queue,
               visited, related, gresult, enqueued, dequeued>>

indexVars == <<thisConfig, thisChunks, codeBM25, textBM25, hybridSearch,
               buildCalled>>

buildVars == <<bpc, allChunks, ci, compressedCount, batchTasks, batchCalls, wave,
               batchResults, berror, bprev>>

searchVars == <<spc, sargs, sissued, sused, sresult, serror>>

callVars == <<callee, callArgs, callOutcome>>

vars == <<rerankVars, graphVars, indexVars, buildVars, searchVars, callVars>>

(***************************************************************************)
(* Bounds                                                                  *)
(***************************************************************************)
MaxCandidates == 3     \* longest hybrid candidate list handed to the pipeline
MaxTopK == 2           \* largest stage2TopK / stage3TopK tried
MaxGraphChunks == 3    \* most chunks a code graph is built from
MaxDepth == 2          \* largest maxDepth passed to findRelated

(***************************************************************************)
(* Helpers                                                                 *)
(***************************************************************************)
Min(a, b) == IF a <= b THEN a ELSE b

SetMin(S) == CHOOSE x \in S : \A y \in S : x <= y

Front(s) == SubSeq(s, 1, Len(s) - 1)

Last(s) == s[Len(s)]

RECURSIVE GCD(_, _)
GCD(a, b) == IF b = 0 THEN a ELSE GCD(b, a % b)

\* Array.prototype.slice(0, k) for k >= 0
Slice(s, k) == SubSeq(s, 1, Min(k, Len(s)))

SeqsUpTo(S, n) == UNION {[1..k -> S] : k \in 0..n}

(***************************************************************************)
(* Chunks (lib/rag/types.ts)                                               *)
(***************************************************************************)
\* optional fields (jsDoc, parentClass, embedding, originalSize) are options
CodeChunk(id, name, code, calls, embedding) ==
  [id |-> id, filePath |-> <<>>, startLine |-> 0, endLine |-> 0,
   type |-> <<>>, name |-> name, language |-> <<>>, code |-> code,
   calls |-> calls, jsDoc |-> <<>>, parentClass |-> <<>>, keywords |-> <<>>,
   embedding |-> embedding, compressed |-> FALSE, originalSize |-> <<>>]

HasEmbedding(chunk) == chunk.embedding # <<>>

(***************************************************************************)
(* Scores                                                                  *)
(***************************************************************************)
\* cosine similarity kept exact: dotProduct / (sqrt(normA) * sqrt(normB))
CosScore(dot, na, nb) == [kind |-> "cos", dot |-> dot, na |-> na, nb |-> nb]

NumScore(v) == [kind |-> "num", v |-> v]

\* a > b on two scores of the same kind
ScoreGt(a, b) ==
  IF a.kind = "num" THEN a.v > b.v
  ELSE IF a.kind = "rat"
       THEN LET g == GCD(a.den, b.den)
            IN a.num * (b.den \div g) > b.num * (a.den \div g)
  ELSE LET X == a.dot
           Y == b.dot
           A == a.na * a.nb
           B == b.na * b.nb
       IN IF X >= 0 /\ Y < 0 THEN TRUE
          ELSE IF X < 0 /\ Y >= 0 THEN FALSE
          ELSE IF X >= 0 THEN X * X * B > Y * Y * A
          ELSE X * X * B < Y * Y * A

\* results.sort((a, b) => b.score - a.score): stable, descending
InsertDesc(sorted, e) ==
  LET before == {i \in 1..Len(sorted) : ScoreGt(e.score, sorted[i].score)}
      p == IF before = {} THEN Len(sorted) + 1 ELSE SetMin(before)
  IN SubSeq(sorted, 1, p - 1) \o <<e>> \o SubSeq(sorted, p, Len(sorted))

RECURSIVE SortDesc(_)
SortDesc(s) ==
  IF s = <<>> THEN <<>> ELSE InsertDesc(SortDesc(Front(s)), Last(s))

(***************************************************************************)
(* cosineSimilarity (lib/rag/hybrid-search.ts)                             *)
(***************************************************************************)
RECURSIVE Dot(_, _)
Dot(a, b) ==
  IF a = <<>> THEN 0 ELSE Dot(Front(a), Front(b)) + Last(a) * Last(b)

\* the dimension check written with > in place of !==
cosineSimilarityThrowsIfLonger(a, b) == Len(a) > Len(b)

\* 'Vectors must have same dimensions'
cosineSimilarityThrows(a, b) == Len(a) # Len(b)

cosineSimilarity(a, b) == CosScore(Dot(a, b), Dot(a, a), Dot(b, b))

(***************************************************************************)
(* Stage 2: rerankByEmbedding                                              *)
(***************************************************************************)
EmbeddedOnly(candidates) ==
  SelectSeq(candidates, LAMBDA result : HasEmbedding(result.chunk))

rerankByEmbeddingThrows(queryEmbedding, candidates) ==
  \E i \in 1..Len(candidates) :
     /\ HasEmbedding(candidates[i].chunk)
     /\ cosineSimilarityThrows(queryEmbedding, candidates[i].chunk.embedding[1])

\* stage 2 without its filter and its re-scoring
rerankByEmbeddingKeepAll(queryEmbedding, candidates, topK) ==
  Slice(candidates, topK)

\* stage 2, had a candidate without embedding been scored 0 in place of
\* being filtered out
rerankByEmbeddingZeroFill(queryEmbedding, candidates, topK) ==
  Slice(SortDesc([i \in 1..Len(candidates) |->
                    [chunk |-> candidates[i].chunk,
                     score |-> IF HasEmbedding(candidates[i].chunk)
                               THEN cosineSimilarity(
                                      queryEmbedding,
                                      candidates[i].chunk.embedding[1])
                               ELSE CosScore(0, 1, 1)]]), topK)

rerankByEmbedding(queryEmbedding, candidates, topK) ==
  LET kept == EmbeddedOnly(candidates)
      scoredByCos ==
        [i \in 1..Len(kept) |->
           [chunk |-> kept[i].chunk,
            score |-> cosineSimilarity(queryEmbedding, kept[i].chunk.embedding[1])]]
  IN Slice(SortDesc(scoredByCos), topK)

(***************************************************************************)
(* Stage 3: rerankByLLM                                                    *)
(***************************************************************************)
RankingFailed == "Ranking failed"

\* the candidates rerankResults hands to rerankByLLM
rerankByLLMCandidatesStage1(s1, s2) == s1

rerankByLLMCandidates(s1, s2) == s2

\* try-branch of the mapped callback: the ranking the agent returned
RankedEntry(chunk, ranking) ==
  [chunk |-> chunk, score |-> NumScore(ranking.score),
   explanation |-> ranking.explanation]

\* catch-branch of the mapped callback
FailedEntryRethrow(chunk) == <<>>

FailedEntry(chunk) ==
  <<[chunk |-> chunk, score |-> NumScore(0), explanation |-> RankingFailed]>>

\* Promise.all resolves once every mapped promise has a value
AllSettledAny(promises) ==
  promises = <<>> \/ \E i \in 1..Len(promises) : promises[i] # <<>>

AllSettled(promises) == \A i \in 1..Len(promises) : promises[i] # <<>>

(***************************************************************************)
(* Inputs of the pipeline                                                  *)
(***************************************************************************)
Queries == {"q"}

QueryEmbeddings == {<<2, 1>>, <<-1, 2>>}

\* chunks with an embedding, without one, and with one of another dimension
RerankChunks ==
  { CodeChunk(1, "a", <<>>, <<>>, << <<1, 0>> >>),
    CodeChunk(2, "b", <<>>, <<>>, << <<0, 1>> >>),
    CodeChunk(3, "c", <<>>, <<>>, <<>>),
    CodeChunk(4, "d", <<>>, <<>>, << <<1>> >>) }

RrfScore(num, den) == [kind |-> "rat", num |-> num, den |-> den]

HybridLists ==
  { [i \in 1..Len(cs) |-> [chunk |-> cs[i], score |-> RrfScore(1, 60 + i)]] :
      cs \in SeqsUpTo(RerankChunks, MaxCandidates) }

RerankConfigs == [stage2TopK : 1..MaxTopK, stage3TopK : 1..MaxTopK]

\* what codeRankerAgent.execute can return (schema: score in 0..10)
Rankings == [score : {0, 10}, explanation : {"ok"}]

(***************************************************************************)
(* rerankResults                                                           *)
(***************************************************************************)
RerankInit ==
  /\ rpc = "idle"
  /\ rargs = <<>>
  /\ stage1 = <<>>
  /\ stage2 = <<>>
  /\ stage3 = <<>>
  /\ rankCalls = <<>>
  /\ rankPromises = <<>>
  /\ scored = <<>>

\* rerankResults up to the await of rerankByLLM's Promise.all: stage 2 is
\* synchronous, and candidates.map(async ...) issues every execute() call
\* before the first of them can settle.
rerankResults(query, queryEmbedding, hybridResults, config) ==
  /\ rpc = "idle"
  /\ rargs' = <<[query |-> query, queryEmbedding |-> queryEmbedding,
                 config |-> config]>>
  /\ stage1' = hybridResults
  /\ stage3' = <<>>
  /\ scored' = <<>>
  /\ IF rerankByEmbeddingThrows(queryEmbedding, hybridResults)
     THEN /\ rpc' = "threw"
          /\ stage2' = <<>>
          /\ rankCalls' = <<>>
          /\ rankPromises' = <<>>
     ELSE LET s2 == rerankByEmbedding(queryEmbedding, hybridResults,
                                      config.stage2TopK)
              cands == rerankByLLMCandidates(hybridResults, s2)
          IN /\ rpc' = "stage3"
             /\ stage2' = s2
             /\ rankCalls' = [i \in 1..Len(cands) |->
                                [query |-> query, chunk |-> cands[i].chunk,
                                 status |-> "inflight", ranking |-> <<>>]]
             /\ rankPromises' = [i \in 1..Len(cands) |-> <<>>]

\* one codeRankerAgent.execute call returns: the try-branch maps it
RankingReturns(i, ranking) ==
  /\ rpc = "stage3"
  /\ i \in 1..Len(rankCalls)
  /\ rankCalls[i].status = "inflight"
  /\ rankCalls' = [rankCalls EXCEPT ![i].status = "ok", ![i].ranking = <<ranking>>]
  /\ rankPromises' = [rankPromises EXCEPT
                        ![i] = <<RankedEntry(rankCalls[i].chunk, ranking)>>]
  /\ UNCHANGED <<rpc, rargs, stage1, stage2, stage3, scored>>

\* one codeRankerAgent.execute call throws: the catch-branch maps it
RankingFails(i) ==
  /\ rpc = "stage3"
  /\ i \in 1..Len(rankCalls)
  /\ rankCalls[i].status = "inflight"
  /\ rankCalls' = [rankCalls EXCEPT ![i].status = "failed"]
  /\ rankPromises' = [rankPromises EXCEPT ![i] = FailedEntry(rankCalls[i].chunk)]
  /\ UNCHANGED <<rpc, rargs, stage1, stage2, stage3, scored>>

\* Promise.all resolves; rerankByLLM sorts and slices; rerankResults returns
rerankByLLMResolve ==
  /\ rpc = "stage3"
  /\ AllSettled(rankPromises)
  /\ LET values == SelectSeq(rankPromises, LAMBDA p : p # <<>>)
     IN scored' = [i \in 1..Len(values) |-> values[i][1]]
  /\ stage3' = Slice(SortDesc(scored'), rargs[1].config.stage3TopK)
  /\ rpc' = "done"
  /\ UNCHANGED <<rargs, stage1, stage2, rankCalls, rankPromises>>

\* the caller has taken the result (or the error): the locals of the call
\* are gone and the pipeline can run again
RerankReturn ==
  /\ rpc \in {"done", "threw"}
  /\ rpc' = "idle"
  /\ rargs' = <<>>
  /\ stage1' = <<>>
  /\ stage2' = <<>>
  /\ stage3' = <<>>
  /\ rankCalls' = <<>>
  /\ rankPromises' = <<>>
  /\ scored' = <<>>

RerankCall ==
  \E query \in Queries, qe \in QueryEmbeddings, hybrid \in HybridLists,
     config \in RerankConfigs :
     rerankResults(query, qe, hybrid, config)

RerankSettle ==
  \E i \in 1..Len(rankCalls) :
     \/ \E ranking \in Rankings : RankingReturns(i, ranking)
     \/ RankingFails(i)

GraphIdle ==
  /\ gpc = "idle"
  /\ gargs = <<>>
  /\ queue = <<>>
  /\ visited = {}
  /\ related = <<>>
  /\ gresult = <<>>
  /\ enqueued = <<>>
  /\ dequeued = <<>>

\* the graph is not part of the pipeline: an empty graph, never queried
NoGraph ==
  /\ gchunks = <<>>
  /\ chunksById = <<>>
  /\ callEdges = <<>>
  /\ definitions = <<>>
  /\ GraphIdle

BuildIdle ==
  /\ bpc = "idle"
  /\ allChunks = <<>>
  /\ ci = 0
  /\ compressedCount = 0
  /\ batchTasks = <<>>
  /\ batchCalls = <<>>
  /\ wave = 0
  /\ batchResults = <<>>
  /\ berror = <<>>
  /\ bprev = <<>>

SearchIdle ==
  /\ spc = "idle"
  /\ sargs = <<>>
  /\ sissued = <<>>
  /\ sused = <<>>
  /\ sresult = <<>>
  /\ serror = <<>>

\* no library function is being called directly
NoCall ==
  /\ callee = "none"
  /\ callArgs = <<>>
  /\ callOutcome = <<>>

\* field initialisers of class RAGIndex
IndexFields ==
  /\ thisChunks = <<>>
  /\ codeBM25 = <<>>
  /\ textBM25 = <<>>
  /\ hybridSearch = <<>>
  /\ buildCalled = FALSE

\* no RAGIndex has been constructed
NoIndex ==
  /\ thisConfig = <<>>
  /\ IndexFields
  /\ BuildIdle
  /\ SearchIdle

\* the pipeline on its own, called with arbitrary candidate lists
InitRerank == RerankInit /\ NoGraph /\ NoIndex /\ NoCall

NextRerank ==
  \/ RerankCall /\ UNCHANGED <<callVars, graphVars, indexVars, buildVars, searchVars>>
  \/ RerankSettle /\ UNCHANGED <<callVars, graphVars, indexVars, buildVars, searchVars>>
  \/ rerankByLLMResolve /\ UNCHANGED <<callVars, graphVars, indexVars, buildVars, searchVars>>
  \/ RerankReturn /\ UNCHANGED <<callVars, graphVars, indexVars, buildVars, searchVars>>

SpecRerank == InitRerank /\ [][NextRerank]_vars

(***************************************************************************)
(* Claims on the reranking pipeline                                        *)
(***************************************************************************)
ChunksOf(results) == {results[i].chunk : i \in 1..Len(results)}

\* C1: whatever the candidate list, the embeddings present and the outcomes
\* of the scoring calls, the stages rerankResults returns only narrow:
\* |stage2| <= |stage1|, |stage3| <= |stage2|, every chunk of stage2 is in
\* stage1 and every chunk of stage3 is in stage2.
C1_StrictlyNarrowing ==
  rpc = "done" =>
    /\ Len(stage2) <= Len(stage1)
    /\ Len(stage3) <= Len(stage2)
    /\ ChunksOf(stage2) \subseteq ChunksOf(stage1)
    /\ ChunksOf(stage3) \subseteq ChunksOf(stage2)

\* a run in which both stages dropped candidates, one of them for lack of
\* an embedding, and a scoring call failed
C1_Witness ==
  /\ rpc = "done"
  /\ Len(stage2) < Len(stage1)
  /\ 0 < Len(stage3)
  /\ Len(stage3) < Len(stage2)
  /\ \E i \in 1..Len(stage1) : ~HasEmbedding(stage1[i].chunk)
  /\ \E i \in 1..Len(rankCalls) : rankCalls[i].status = "failed"

\* C2: a failed scoring call does not stop stage 3: once every call has
\* settled the stage resolves, the failed candidate is in the scored set
\* with score 0 and the explanation 'Ranking failed', and every other
\* candidate has the score its own call returned.
C2_ScoringFailureIsolated ==
  /\ (rpc = "stage3" /\ \A i \in 1..Len(rankCalls) : rankCalls[i].status # "inflight")
       => ENABLED rerankByLLMResolve
  /\ rpc = "done" =>
       /\ Len(scored) = Len(rankCalls)
       /\ \A i \in 1..Len(rankCalls) :
            /\ scored[i].chunk = rankCalls[i].chunk
            /\ rankCalls[i].status = "failed" =>
                 /\ scored[i].score = NumScore(0)
                 /\ scored[i].explanation = "Ranking failed"
            /\ rankCalls[i].status = "ok" =>
                 /\ scored[i].score = NumScore(rankCalls[i].ranking[1].score)
                 /\ scored[i].explanation = rankCalls[i].ranking[1].explanation

\* stage 3 resolved although one call failed; another call returned 10
C2_Witness ==
  /\ rpc = "done"
  /\ \E i, j \in 1..Len(rankCalls) :
       /\ rankCalls[i].status = "failed"
       /\ rankCalls[j].status = "ok"
       /\ rankCalls[j].ranking[1].score = 10
       /\ scored[j].score = NumScore(10)

\* C3: stage 3 issues exactly one scoring call per stage-2 candidate, and
\* yields its result only when every one of them has returned or failed:
\* while a call is in flight there is no stage-3 result at all.
C3_AllCallsSettleBeforeYield ==
  /\ rpc \in {"stage3", "done"} =>
       /\ Len(rankCalls) = Len(stage2)
       /\ \A i \in 1..Len(stage2) :
            /\ rankCalls[i].chunk = stage2[i].chunk
            /\ rankCalls[i].query = rargs[1].query
  /\ rpc = "stage3" => stage3 = <<>> /\ scored = <<>>
  /\ rpc = "done" =>
       /\ \A i \in 1..Len(rankCalls) : rankCalls[i].status \in {"ok", "failed"}
       /\ Len(scored) = Len(stage2)

\* the second call has settled before the first: nothing is yielded yet
C3_Witness ==
  /\ rpc = "stage3"
  /\ Len(rankCalls) = 2
  /\ rankCalls[1].status = "inflight"
  /\ rankCalls[2].status \in {"ok", "failed"}
  /\ stage3 = <<>>

(***************************************************************************)
(* JavaScript Map: key/value pairs in insertion order                      *)
(***************************************************************************)
MapHas(m, k) == \E i \in 1..Len(m) : m[i][1] = k

\* Map.get: an option
MapGet(m, k) ==
  IF MapHas(m, k)
  THEN <<m[CHOOSE i \in 1..Len(m) : m[i][1] = k][2]>>
  ELSE <<>>

\* Map.set: an existing key keeps its place
MapSet(m, k, v) ==
  IF MapHas(m, k)
  THEN [i \in 1..Len(m) |-> IF m[i][1] = k THEN <<k, v>> ELSE m[i]]
  ELSE Append(m, <<k, v>>)

\* map.get(k) || []
MapGetOrEmpty(m, k) == IF MapHas(m, k) THEN MapGet(m, k)[1] ELSE <<>>

Includes(s, x) == \E i \in 1..Len(s) : s[i] = x

(***************************************************************************)
(* CodeGraph (lib/rag/code-graph, second half of lib/rag/code-chunker.ts)  *)
(***************************************************************************)
\* one iteration of buildGraph's loop
buildGraphAdd(g, chunk) ==
  [chunksById |-> MapSet(g.chunksById, chunk.id, chunk),
   callEdges |-> IF Len(chunk.calls) > 0
                 THEN MapSet(g.callEdges, chunk.id, chunk.calls)
                 ELSE g.callEdges,
   definitions |-> MapSet(g.definitions, chunk.name,
                          Append(MapGetOrEmpty(g.definitions, chunk.name), chunk.id))]

RECURSIVE buildGraph(_)
buildGraph(chunks) ==
  IF chunks = <<>>
  THEN [chunksById |-> <<>>, callEdges |-> <<>>, definitions |-> <<>>]
  ELSE buildGraphAdd(buildGraph(Front(chunks)), Last(chunks))

\* if (!visited.has(targetId))
NotVisitedAlways(seen, targetId) == TRUE

NotVisited(seen, targetId) == targetId \notin seen

\* the two nested for-loops of findRelated: the ids the calls lead to, in order
RECURSIVE CallTargetIds(_, _)
CallTargetIds(defs, calls) ==
  IF calls = <<>> THEN <<>>
  ELSE CallTargetIds(defs, Front(calls)) \o MapGetOrEmpty(defs, Last(calls))

\* visiting the targets in order: [visited, queue, pushed]
RECURSIVE VisitTargets(_, _, _)
VisitTargets(st, targets, depth) ==
  IF targets = <<>> THEN st
  ELSE LET before == VisitTargets(st, Front(targets), depth)
           targetId == Last(targets)
       IN IF NotVisited(before.visited, targetId)
          THEN [visited |-> before.visited \cup {targetId},
                queue |-> Append(before.queue, [id |-> targetId, depth |-> depth]),
                pushed |-> Append(before.pushed, targetId)]
          ELSE before

\* related.sort((a, b) => a.depth - b.depth): stable, ascending
InsertByDepth(sorted, e) ==
  LET after == {i \in 1..Len(sorted) : sorted[i].depth > e.depth}
      p == IF after = {} THEN Len(sorted) + 1 ELSE SetMin(after)
  IN SubSeq(sorted, 1, p - 1) \o <<e>> \o SubSeq(sorted, p, Len(sorted))

RECURSIVE SortByDepth(_)
SortByDepth(s) ==
  IF s = <<>> THEN <<>> ELSE InsertByDepth(SortByDepth(Front(s)), Last(s))

\* new CodeGraph(chunks)
GraphBuilt(chunks) ==
  LET g == buildGraph(chunks)
  IN /\ gchunks = chunks
     /\ chunksById = g.chunksById
     /\ callEdges = g.callEdges
     /\ definitions = g.definitions

graphMaps == <<gchunks, chunksById, callEdges, definitions>>

\* findRelated up to the while loop
findRelatedCall(chunkId, maxDepth) ==
  /\ gpc = "idle"
  /\ gargs' = <<[op |-> "findRelated", chunkId |-> chunkId, maxDepth |-> maxDepth]>>
  /\ queue' = <<[id |-> chunkId, depth |-> 0]>>
  /\ visited' = {chunkId}
  /\ related' = <<>>
  /\ gresult' = <<>>
  /\ enqueued' = <<chunkId>>
  /\ dequeued' = <<>>
  /\ gpc' = "bfs"
  /\ UNCHANGED graphMaps

\* one iteration of findRelated's while loop
findRelatedStep ==
  /\ gpc = "bfs"
  /\ queue # <<>>
  /\ LET current == Head(queue)
         chunk == MapGet(chunksById, current.id)
     IN /\ dequeued' = Append(dequeued, current.id)
        /\ IF chunk = <<>>
           THEN /\ queue' = Tail(queue)
                /\ UNCHANGED <<visited, related, enqueued>>
           ELSE /\ related' = IF current.depth > 0
                              THEN Append(related, [chunk |-> chunk[1],
                                                    depth |-> current.depth])
                              ELSE related
                /\ IF current.depth >= gargs[1].maxDepth
                   THEN /\ queue' = Tail(queue)
                        /\ UNCHANGED <<visited, enqueued>>
                   ELSE LET calls == MapGetOrEmpty(callEdges, current.id)
                            st == VisitTargets(
                                    [visited |-> visited, queue |-> Tail(queue),
                                     pushed |-> <<>>],
                                    CallTargetIds(definitions, calls),
                                    current.depth + 1)
                        IN /\ queue' = st.queue
                           /\ visited' = st.visited
                           /\ enqueued' = enqueued \o st.pushed
  /\ UNCHANGED <<graphMaps, gpc, gargs, gresult>>

\* the loop is over: sort by depth and return the chunks
findRelatedReturn ==
  /\ gpc = "bfs"
  /\ queue = <<>>
  /\ LET sorted == SortByDepth(related)
     IN gresult' = [i \in 1..Len(sorted) |-> sorted[i].chunk]
  /\ gpc' = "done"
  /\ UNCHANGED <<graphMaps, gargs, queue, visited, related, enqueued, dequeued>>

\* the chunks of the map entries, in entry order, that are in chunksById
RECURSIVE ChunksOfIds(_, _)
ChunksOfIds(byId, ids) ==
  IF ids = <<>> THEN <<>>
  ELSE ChunksOfIds(byId, Front(ids)) \o MapGet(byId, Last(ids))

findCallersResult(functionName) ==
  LET hits == SelectSeq(callEdges, LAMBDA e : Includes(e[2], functionName))
  IN ChunksOfIds(chunksById, [i \in 1..Len(hits) |-> hits[i][1]])

findDefinitionsFirstOnly(functionName) ==
  ChunksOfIds(chunksById, Slice(MapGetOrEmpty(definitions, functionName), 1))

findDefinitionsResult(functionName) ==
  ChunksOfIds(chunksById, MapGetOrEmpty(definitions, functionName))

findCallers(functionName) ==
  /\ gpc = "idle"
  /\ gargs' = <<[op |-> "findCallers", functionName |-> functionName]>>
  /\ gresult' = findCallersResult(functionName)
  /\ gpc' = "done"
  /\ UNCHANGED <<graphMaps, queue, visited, related, enqueued, dequeued>>

findDefinitions(functionName) ==
  /\ gpc = "idle"
  /\ gargs' = <<[op |-> "findDefinitions", functionName |-> functionName]>>
  /\ gresult' = findDefinitionsResult(functionName)
  /\ gpc' = "done"
  /\ UNCHANGED <<graphMaps, queue, visited, related, enqueued, dequeued>>

\* the caller has taken the result
GraphReturn ==
  /\ gpc = "done"
  /\ gpc' = "idle"
  /\ gargs' = <<>>
  /\ queue' = <<>>
  /\ visited' = {}
  /\ related' = <<>>
  /\ gresult' = <<>>
  /\ enqueued' = <<>>
  /\ dequeued' = <<>>
  /\ UNCHANGED graphMaps

(***************************************************************************)
(* Inputs of the graph                                                     *)
(***************************************************************************)
NameList == <<"a", "b", "c">>

Names == {NameList[i] : i \in 1..Len(NameList)}

CallLists == {<<>>, <<"a">>, <<"b">>, <<"c">>, <<"b", "c">>}

\* names up to renaming: the k-th chunk takes a name already used or the
\* first unused one
NameChoices(n) ==
  {f \in [1..n -> 1..Len(NameList)] :
     \A k \in 1..n : \A v \in 1..(f[k] - 1) : \E j \in 1..(k - 1) : f[j] = v}

\* the chunk at position k has id k; the last one may have the id of the
\* first: two chunks that start on the same line of the same file get the
\* same id
IdChoices(n) ==
  {[k \in 1..n |-> IF k = n /\ sameLine THEN 1 ELSE k] : sameLine \in BOOLEAN}

GraphChunkList(n, ids, names, calls) ==
  [k \in 1..n |-> CodeChunk(ids[k], NameList[names[k]], <<>>, calls[k], <<>>)]

\* findRelated starts at the first chunk, at the second, or at an id that
\* is not in the graph
StartIds == {0, 1, 2}

GraphInit ==
  /\ \E n \in 0..MaxGraphChunks :
       \E ids \in IdChoices(n), names \in NameChoices(n),
          calls \in [1..n -> CallLists] :
          GraphBuilt(GraphChunkList(n, ids, names, calls))
  /\ GraphIdle

GraphQuery ==
  \/ \E chunkId \in StartIds, maxDepth \in 0..MaxDepth :
        findRelatedCall(chunkId, maxDepth)
  \/ \E functionName \in Names : findCallers(functionName)
  \/ \E functionName \in Names : findDefinitions(functionName)

\* a code graph on its own, built from arbitrary chunk lists
InitGraph == GraphInit /\ RerankInit /\ NoIndex /\ NoCall

NextGraph ==
  \/ GraphQuery /\ UNCHANGED <<callVars, rerankVars, indexVars, buildVars, searchVars>>
  \/ findRelatedStep /\ UNCHANGED <<callVars, rerankVars, indexVars, buildVars, searchVars>>
  \/ findRelatedReturn /\ UNCHANGED <<callVars, rerankVars, indexVars, buildVars, searchVars>>
  \/ GraphReturn /\ UNCHANGED <<callVars, rerankVars, indexVars, buildVars, searchVars>>

SpecGraph == InitGraph /\ [][NextGraph]_vars

(***************************************************************************)
(* Claims on the code graph                                                *)
(***************************************************************************)
NoDuplicates(s) == \A i, j \in 1..Len(s) : s[i] = s[j] => i = j

Count(s, e) == Cardinality({i \in 1..Len(s) : s[i] = e})

SameElements(s, t) ==
  /\ Len(s) = Len(t)
  /\ \A i \in 1..Len(s) : Count(s, s[i]) = Count(t, s[i])

UniqueIds(chunks) ==
  \A i, j \in 1..Len(chunks) : chunks[i].id = chunks[j].id => i = j

RunningFindRelated == gpc \in {"bfs", "done"} /\ gargs[1].op = "findRelated"

\* the chunks a chunk calls: every chunk that defines one of its call names
CallTargets(chunks, i) ==
  {j \in 1..Len(chunks) : Includes(chunks[i].calls, chunks[j].name)}

\* positions at most d hops away from the positions S
RECURSIVE WithinHops(_, _, _)
WithinHops(chunks, S, d) ==
  IF d = 0 THEN S
  ELSE LET W == WithinHops(chunks, S, d - 1)
       IN W \cup UNION {CallTargets(chunks, i) : i \in W}

\* shortest call-path distance from S of a chunk known to be reachable
HopDistance(chunks, S, chunk) ==
  SetMin({d \in 0..Len(chunks) :
            \E j \in WithinHops(chunks, S, d) : chunks[j] = chunk})

\* C8: findRelated terminates on every call graph, cycles and self-calls
\* included: every iteration of its loop can run and shifts one id off the
\* queue, no id is pushed or shifted twice, so there are at most (number of
\* ids + 1) iterations, and no chunk is twice in the result.
C8_FindRelatedVisitsOnce ==
  RunningFindRelated =>
    /\ NoDuplicates(enqueued)
    /\ NoDuplicates(dequeued)
    /\ Len(dequeued) <= Len(chunksById) + 1
    /\ NoDuplicates(gresult)
    /\ gpc = "bfs" => ENABLED (findRelatedStep \/ findRelatedReturn)

\* a finished traversal from a chunk on a call cycle (it calls a chunk
\* that calls it back) that also calls itself
C8_Witness ==
  /\ gpc = "done"
  /\ gargs[1].op = "findRelated"
  /\ gargs[1].maxDepth = MaxDepth
  /\ \E i, j \in 1..Len(gchunks) :
       /\ i # j
       /\ gchunks[i].id = gargs[1].chunkId
       /\ gchunks[i].id # gchunks[j].id
       /\ Includes(gchunks[i].calls, gchunks[j].name)
       /\ Includes(gchunks[j].calls, gchunks[i].name)
       /\ Includes(gchunks[j].calls, gchunks[j].name)
       /\ Includes(gresult, gchunks[j])

\* the statement of C9 on the result of a finished findRelated(x, d)
FindRelatedExact ==
  LET x == gargs[1].chunkId
      d == gargs[1].maxDepth
      S == {i \in 1..Len(gchunks) : gchunks[i].id = x}
      expected == WithinHops(gchunks, S, d) \ S
  IN /\ Len(gresult) = Cardinality(expected)
     /\ {gresult[k] : k \in 1..Len(gresult)} = {gchunks[j] : j \in expected}
     /\ \A k, l \in 1..Len(gresult) :
          k < l => HopDistance(gchunks, S, gresult[k])
                     <= HopDistance(gchunks, S, gresult[l])
     /\ \A k \in 1..Len(gresult) : gresult[k].id # x
     /\ d = 0 => gresult = <<>>

\* C9: findRelated(x, d) returns exactly the chunks whose shortest call-path
\* distance from x is between 1 and d, in ascending distance, never x, and
\* nothing for d = 0 (stated for every start id x that at most one chunk of
\* the set carries).
C9_FindRelatedExact ==
  (/\ gpc = "done"
   /\ gargs[1].op = "findRelated"
   /\ Cardinality({i \in 1..Len(gchunks) : gchunks[i].id = gargs[1].chunkId}) <= 1)
    => FindRelatedExact

\* the same on graphs whose chunk ids are pairwise different
C9_ExactWhenIdsUnique ==
  (gpc = "done" /\ gargs[1].op = "findRelated" /\ UniqueIds(gchunks))
    => FindRelatedExact

\* the statement of C10 on the result of findDefinitions / findCallers
LookupExact ==
  /\ gargs[1].op = "findDefinitions" =>
       SameElements(gresult,
          SelectSeq(gchunks, LAMBDA c : c.name = gargs[1].functionName))
  /\ gargs[1].op = "findCallers" =>
       SameElements(gresult,
          SelectSeq(gchunks, LAMBDA c : Includes(c.calls, gargs[1].functionName)))

\* C10: findDefinitions(name) returns exactly the chunks named name, all of
\* them, and findCallers(name) exactly the chunks whose calls contain name.
C10_LookupsExact ==
  (gpc = "done" /\ gargs[1].op \in {"findDefinitions", "findCallers"})
    => LookupExact

\* the same on graphs whose chunk ids are pairwise different
C10_ExactWhenIdsUnique ==
  (gpc = "done" /\ gargs[1].op \in {"findDefinitions", "findCallers"}
     /\ UniqueIds(gchunks))
    => LookupExact

(***************************************************************************)
(* Text.  A string whose characters matter (it is tokenized, measured or   *)
(* concatenated) is a tuple of one-character strings.                      *)
(***************************************************************************)
LowerLetters ==
  <<"a", "b", "c", "d", "e", "f", "g", "h", "i", "j", "k", "l", "m",
    "n", "o", "p", "q", "r", "s", "t", "u", "v", "w", "x", "y", "z">>

UpperLetters ==
  <<"A", "B", "C", "D", "E", "F", "G", "H", "I", "J", "K", "L", "M",
    "N", "O", "P", "Q", "R", "S", "T", "U", "V", "W", "X", "Y", "Z">>

DigitChars == <<"0", "1", "2", "3", "4", "5", "6", "7", "8", "9">>

Range(s) == {s[i] : i \in 1..Len(s)}

\* String(n) of a natural number
RECURSIVE NumberToString(_)
NumberToString(n) ==
  IF n < 10 THEN <<DigitChars[n + 1]>>
  ELSE Append(NumberToString(n \div 10), DigitChars[(n % 10) + 1])

\* parts.join(sep)
RECURSIVE Join(_, _)
Join(parts, sep) ==
  IF parts = <<>> THEN <<>>
  ELSE IF Len(parts) = 1 THEN parts[1]
  ELSE Join(Front(parts), sep) \o sep \o Last(parts)

\* String.prototype.toLowerCase
toLowerCase(text) ==
  [i \in 1..Len(text) |->
     IF text[i] \in Range(UpperLetters)
     THEN LowerLetters[CHOOSE k \in 1..26 : UpperLetters[k] = text[i]]
     ELSE text[i]]

\* \w of a regular expression: [A-Za-z0-9_]
IsWordChar(c) ==
  c \in Range(LowerLetters) \cup Range(UpperLetters) \cup Range(DigitChars) \cup {"_"}

\* text.split(/\W+/): the pieces between the runs of non-word characters,
\* the (possibly empty) piece before the first and after the last run included
RECURSIVE SplitNonWord(_, _, _, _)
SplitNonWord(text, piece, pieces, inRun) ==
  IF text = <<>> THEN Append(pieces, piece)
  ELSE IF IsWordChar(Head(text))
       THEN SplitNonWord(Tail(text), Append(piece, Head(text)), pieces, FALSE)
       ELSE IF inRun
            THEN SplitNonWord(Tail(text), piece, pieces, TRUE)
            ELSE SplitNonWord(Tail(text), <<>>, Append(pieces, piece), TRUE)

(***************************************************************************)
(* BM25 (lib/rag/bm25)                                                     *)
(***************************************************************************)
tokenize(text) ==
  SelectSeq(SplitNonWord(toLowerCase(text), <<>>, <<>>, FALSE),
            LAMBDA term : Len(term) > 0)

\* Math.log((totalDocs - df + 0.5) / (df + 0.5) + 1), in millionths, for the
\* corpus sizes a query is run against: LnTable[totalDocs][df]
LnTable ==
  << <<287682>>,
     <<693147, 182322>>,
     <<980829, 470004, 133531>>,
     <<1203973, 693147, 356675, 105361>>,
     <<1386294, 875469, 538997, 287682, 87011>>,
     <<1540445, 1029619, 693147, 441833, 241162, 74108>>,
     <<1673976, 1163151, 826679, 575364, 374693, 207639, 64539>> >>

\* the Map calculateIDF returns, read only through get(): term -> the
\* argument (totalDocs, df) of its logarithm
calculateIDF(documents, totalDocs) ==
  LET terms == UNION {Range(documents[d]) : d \in 1..Len(documents)}
  IN [term \in terms |->
        [totalDocs |-> totalDocs,
         df |-> Cardinality({d \in 1..Len(documents) : term \in Range(documents[d])})]]

IdfScore(entry) == LnTable[entry.totalDocs][entry.df]

\* documents.reduce((sum, doc) => sum + doc.length, 0)
RECURSIVE TotalLength(_)
TotalLength(documents) ==
  IF documents = <<>> THEN 0
  ELSE IF Len(documents) = 1 THEN Len(documents[1])
  ELSE LET half == Len(documents) \div 2
       IN TotalLength(SubSeq(documents, 1, half))
            + TotalLength(SubSeq(documents, half + 1, Len(documents)))

\* one query term's contribution, k1 = 1.2 and b = 0.75, in millionths:
\* idf * tf * (k1 + 1) / (tf + k1 * (1 - b + b * docLength / avgDocLength))
\* with avgDocLength = total / count
TermScore(idfScore, tf, docLength, avgDocLength) ==
  (idfScore * 22 * tf * avgDocLength.total)
    \div (10 * tf * avgDocLength.total + 3 * avgDocLength.total
            + 9 * docLength * avgDocLength.count)

RECURSIVE calculateBM25Score(_, _, _, _)
calculateBM25Score(queryTerms, docTerms, idf, avgDocLength) ==
  IF queryTerms = <<>> THEN 0
  ELSE LET term == Last(queryTerms)
           tf == Count(docTerms, term)
           idfScore == IF term \in DOMAIN idf THEN IdfScore(idf[term]) ELSE 0
       IN calculateBM25Score(Front(queryTerms), docTerms, idf, avgDocLength)
            + (IF tf = 0 THEN 0
               ELSE TermScore(idfScore, tf, Len(docTerms), avgDocLength))

\* the text the BM25-Text index tokenizes
MetadataText(chunk) ==
  Join(<<chunk.filePath, chunk.type, chunk.name, chunk.language>>
         \o chunk.jsDoc \o chunk.parentClass \o chunk.keywords, <<" ">>)

getDocumentText(indexType, chunk) ==
  IF indexType = "code" THEN chunk.code ELSE MetadataText(chunk)

\* new BM25Index(...) followed by index.build(chunks)
BM25IndexBuild(indexType, chunks) ==
  LET documents ==
        [i \in 1..Len(chunks) |-> tokenize(getDocumentText(indexType, chunks[i]))]
  IN [indexType |-> indexType,
      chunks |-> chunks,
      documents |-> documents,
      avgDocLength |-> [total |-> TotalLength(documents), count |-> Len(documents)],
      idf |-> calculateIDF(documents, Len(documents))]

createCodeBM25(chunks) == BM25IndexBuild("code", chunks)

createTextBM25(chunks) == BM25IndexBuild("text", chunks)

BM25IndexSearchNoFilter(index, query, topK) ==
  Slice(SortDesc([i \in 1..Len(index.documents) |->
                    [chunk |-> index.chunks[i],
                     score |-> NumScore(calculateBM25Score(
                                 tokenize(query), index.documents[i],
                                 index.idf, index.avgDocLength))]]), topK)

BM25IndexSearch(index, query, topK) ==
  LET queryTerms == tokenize(query)
      scores ==
        [i \in 1..Len(index.documents) |->
           [chunk |-> index.chunks[i],
            score |-> NumScore(calculateBM25Score(queryTerms, index.documents[i],
                                                  index.idf, index.avgDocLength))]]
  IN Slice(SortDesc(SelectSeq(scores, LAMBDA result : result.score.v > 0)), topK)

(***************************************************************************)
(* Hybrid search (lib/rag/hybrid-search.ts)                                *)
(***************************************************************************)
RRF_K == 60

vectorSearchThrows(queryEmbedding, chunks) ==
  \E i \in 1..Len(chunks) :
     /\ HasEmbedding(chunks[i])
     /\ cosineSimilarityThrows(queryEmbedding, chunks[i].embedding[1])

\* a chunk without embedding scored 0 in place of being skipped
vectorSearchZeroFill(queryEmbedding, chunks, topK) ==
  Slice(SortDesc([i \in 1..Len(chunks) |->
                    [chunk |-> chunks[i],
                     score |-> IF HasEmbedding(chunks[i])
                               THEN cosineSimilarity(queryEmbedding,
                                                     chunks[i].embedding[1])
                               ELSE CosScore(0, 1, 1)]]), topK)

vectorSearch(queryEmbedding, chunks, topK) ==
  LET embedded == SelectSeq(chunks, HasEmbedding)
      found ==
        [i \in 1..Len(embedded) |->
           [chunk |-> embedded[i],
            score |-> cosineSimilarity(queryEmbedding, embedded[i].embedding[1])]]
  IN Slice(SortDesc(found), topK)

\* existing.score += 1 / (k + rank)
AddReciprocal(score, d) ==
  LET g == GCD(score.den, d)
  IN RrfScore(score.num * (d \div g) + score.den \div g, score.den * (d \div g))

\* the loop body of reciprocalRankFusion on the entry of 1-indexed rank "rank"
FuseEntry(chunkScores, result, rank, k) ==
  LET existing == MapGet(chunkScores, result.chunk.id)
  IN IF existing # <<>>
     THEN MapSet(chunkScores, result.chunk.id,
                 [chunk |-> existing[1].chunk,
                  score |-> AddReciprocal(existing[1].score, k + rank)])
     ELSE MapSet(chunkScores, result.chunk.id,
                 [chunk |-> result.chunk, score |-> RrfScore(1, k + rank)])

RECURSIVE FuseList(_, _, _, _)
FuseList(chunkScores, list, n, k) ==
  IF n = 0 THEN chunkScores
  ELSE FuseEntry(FuseList(chunkScores, list, n - 1, k), list[n], n, k)

RECURSIVE FuseLists(_, _)
FuseLists(resultSets, k) ==
  IF resultSets = <<>> THEN <<>>
  ELSE FuseList(FuseLists(Front(resultSets), k), Last(resultSets),
                Len(Last(resultSets)), k)

reciprocalRankFusion(resultSets, topK, k) ==
  LET chunkScores == FuseLists(resultSets, k)
      values == [i \in 1..Len(chunkScores) |-> chunkScores[i][2]]
  IN Slice(SortDesc(values), topK)

\* new HybridSearch(chunks, codeBM25, textBM25)
HybridSearch(chunks, code, text) ==
  [chunks |-> chunks, codeBM25 |-> code, textBM25 |-> text]

HybridSearchThrows(hybrid, queryEmbedding) ==
  vectorSearchThrows(queryEmbedding, hybrid.chunks)

HybridSearchSearch(hybrid, query, queryEmbedding, topK) ==
  reciprocalRankFusion(
    << vectorSearch(queryEmbedding, hybrid.chunks, topK),
       BM25IndexSearch(hybrid.codeBM25, query, topK),
       BM25IndexSearch(hybrid.textBM25, query, topK) >>,
    topK, RRF_K)

(***************************************************************************)
(* Text.  A string whose characters matter is a tuple of one-character     *)
(* strings.                                                                *)
(***************************************************************************)
\* \s of a regular expression, and the characters String.prototype.trim strips
Whitespace == {" ", "\t", "\n", "\r"}

\* text.split(sep) for a one-character separator
RECURSIVE SplitOn(_, _)
SplitOn(text, sep) ==
  IF Len(text) <= 1
  THEN IF text = <<sep>> THEN << <<>>, <<>> >> ELSE <<text>>
  ELSE LET half == Len(text) \div 2
           left == SplitOn(SubSeq(text, 1, half), sep)
           right == SplitOn(SubSeq(text, half + 1, Len(text)), sep)
       IN Front(left) \o << Last(left) \o Head(right) >> \o Tail(right)

\* text.split(/\s+/).filter(w => w.length > n): the runs of non-whitespace
\* characters longer than n (the empty pieces split() yields never pass)
RECURSIVE WordsLongerThan(_, _, _)
WordsLongerThan(text, n, word) ==
  IF text = <<>> THEN (IF Len(word) > n THEN <<word>> ELSE <<>>)
  ELSE IF Head(text) \in Whitespace
       THEN (IF Len(word) > n THEN <<word>> ELSE <<>>)
              \o WordsLongerThan(Tail(text), n, <<>>)
       ELSE WordsLongerThan(Tail(text), n, Append(word, Head(text)))

\* String.prototype.trim
trim(text) ==
  LET kept == {i \in 1..Len(text) : text[i] \notin Whitespace}
  IN IF kept = {} THEN <<>>
     ELSE SubSeq(text, SetMin(kept), CHOOSE i \in kept : \A j \in kept : j <= i)

startsWith(text, prefix) ==
  Len(prefix) <= Len(text) /\ SubSeq(text, 1, Len(prefix)) = prefix

endsWith(text, suffix) ==
  /\ Len(suffix) <= Len(text)
  /\ SubSeq(text, Len(text) - Len(suffix) + 1, Len(text)) = suffix

\* [...new Set(values)]: the first occurrence of every value, in order
Deduplicate(values) ==
  LET first == {i \in 1..Len(values) : \A j \in 1..(i - 1) : values[j] # values[i]}
      nth(k) == CHOOSE i \in first : Cardinality({j \in first : j < i}) = k - 1
  IN [k \in 1..Cardinality(first) |-> values[nth(k)]]

(***************************************************************************)
(* Languages (lib/rag/parser.ts).  Chunk types and languages are           *)
(* abbreviated to two letters.                                             *)
(***************************************************************************)
FunctionType == <<"f", "n">>

MethodType == <<"m", "t">>

ClassType == <<"c", "l">>

ComponentType == <<"c", "o">>

InterfaceType == <<"i", "f">>

ConstantType == <<"c", "n">>

ReadmeType == <<"r", "m">>

DocumentationType == <<"d", "o">>

MetadataType == <<"m", "e">>

JavaScript == <<"j", "s">>

TypeScript == <<"t", "s">>

Tsx == <<"t", "x">>

Python == <<"p", "y">>

Go == <<"g", "o">>

Rust == <<"r", "u">>

Markdown == <<"m", "d">>

Json == <<"j", "n">>

\* EXTENSION_MAP as its entries <<extension, language>>
EXTENSION_MAP ==
  << <<<<"j", "s">>, JavaScript>>,
     <<<<"j", "s", "x">>, JavaScript>>,
     <<<<"m", "j", "s">>, JavaScript>>,
     <<<<"c", "j", "s">>, JavaScript>>,
     <<<<"t", "s">>, TypeScript>>,
     <<<<"t", "s", "x">>, Tsx>>,
     <<<<"m", "t", "s">>, TypeScript>>,
     <<<<"c", "t", "s">>, TypeScript>>,
     <<<<"p", "y">>, Python>>,
     <<<<"p", "y", "w">>, Python>>,
     <<<<"p", "y", "i">>, Python>>,
     <<<<"g", "o">>, Go>>,
     <<<<"r", "s">>, Rust>> >>

\* filePath.split('.').pop()?.toLowerCase(), looked up in EXTENSION_MAP; the
\* language as an option
detectLanguage(filePath) ==
  LET ext == toLowerCase(Last(SplitOn(filePath, ".")))
  IN IF ext = <<>> \/ ~MapHas(EXTENSION_MAP, ext) THEN <<>>
     ELSE <<MapGet(EXTENSION_MAP, ext)[1]>>

isSupported(filePath) == detectLanguage(filePath) # <<>>

\* parseFile: the tree the tree-sitter parser returned for the content, none
\* when the language is not detected or parser.parse threw.  The content of
\* a file is kept with what the library parsers make of it: content.text,
\* content.tree (option) and content.json (option).
parseFile(filePath, content) ==
  IF detectLanguage(filePath) = <<>> \/ content.tree = <<>> THEN <<>>
  ELSE <<[tree |-> content.tree[1], language |-> detectLanguage(filePath)[1]]>>

(***************************************************************************)
(* Code chunker (lib/rag/code-chunker.ts).  A syntax node is               *)
(* [type, name (option: the text of its name node), startIndex, endIndex,  *)
(* startRow, endRow, children].                                            *)
(***************************************************************************)
\* NODE_TYPE_MAPPINGS[language] as its entries <<node type, chunk type>>
NODE_TYPE_MAPPINGS(language) ==
  IF language = JavaScript
    THEN << <<"function_declaration", FunctionType>>,
          <<"function", FunctionType>>,
          <<"arrow_function", FunctionType>>,
          <<"function_expression", FunctionType>>,
          <<"method_definition", MethodType>>,
          <<"class_declaration", ClassType>> >>
  ELSE   IF language = TypeScript
    THEN << <<"function_declaration", FunctionType>>,
          <<"function", FunctionType>>,
          <<"arrow_function", FunctionType>>,
          <<"function_expression", FunctionType>>,
          <<"method_definition", MethodType>>,
          <<"method_signature", MethodType>>,
          <<"class_declaration", ClassType>>,
          <<"interface_declaration", InterfaceType>>,
          <<"type_alias_declaration", InterfaceType>>,
          <<"enum_declaration", ConstantType>> >>
  ELSE   IF language = Tsx
    THEN << <<"function_declaration", FunctionType>>,
          <<"function", FunctionType>>,
          <<"arrow_function", FunctionType>>,
          <<"function_expression", FunctionType>>,
          <<"method_definition", MethodType>>,
          <<"class_declaration", ClassType>>,
          <<"interface_declaration", InterfaceType>>,
          <<"type_alias_declaration", InterfaceType>>,
          <<"jsx_element", ComponentType>> >>
  ELSE   IF language = Python
    THEN << <<"function_definition", FunctionType>>,
          <<"class_definition", ClassType>> >>
  ELSE   IF language = Go
    THEN << <<"function_declaration", FunctionType>>,
          <<"method_declaration", MethodType>>,
          <<"type_declaration", InterfaceType>> >>
  ELSE   IF language = Rust
    THEN << <<"function_item", FunctionType>>,
          <<"impl_item", MethodType>>,
          <<"struct_item", ClassType>>,
          <<"enum_item", ConstantType>>,
          <<"trait_item", InterfaceType>> >>
  ELSE <<>>

Anonymous == <<"a", "n", "o", "n", "y", "m", "o", "u", "s">>

extractName(node) == IF node.name # <<>> THEN node.name[1] ELSE Anonymous

\* the test extractJSDoc makes on the trimmed line above: "comment" (kept),
\* "docstring" (kept, ends the search), "blank" (skipped), "code" (ends it)
JSDocLineKind(line) ==
  IF startsWith(line, <<"/", "*", "*">>) \/ startsWith(line, <<"*">>)
       \/ endsWith(line, <<"*", "/">>)
  THEN "comment"
  ELSE IF startsWith(line, <<"\"", "\"", "\"">>) \/ startsWith(line, <<"'", "'", "'">>)
  THEN "docstring"
  ELSE IF startsWith(line, <<"/", "/">>) \/ startsWith(line, <<"#">>)
  THEN "comment"
  ELSE IF Len(line) > 0 THEN "code" ELSE "blank"

\* the loop of extractJSDoc from 0-based line i upwards, down to line "low"
RECURSIVE JSDocLines(_, _, _, _)
JSDocLines(lines, i, low, commentLines) ==
  IF i < 0 \/ i < low THEN commentLines
  ELSE LET line == trim(lines[i + 1])
           kind == JSDocLineKind(line)
       IN IF kind = "comment"
          THEN JSDocLines(lines, i - 1, low, <<line>> \o commentLines)
          ELSE IF kind = "docstring" THEN <<line>> \o commentLines
          ELSE IF kind = "code" THEN commentLines
          ELSE JSDocLines(lines, i - 1, low, commentLines)

\* extractJSDoc, had the loop run while i >= startLine - 11
extractJSDocElevenLines(node, lines) ==
  LET commentLines == JSDocLines(lines, node.startRow - 1, node.startRow - 11, <<>>)
  IN IF Len(commentLines) > 0 THEN <<Join(commentLines, <<"\n">>)>> ELSE <<>>

\* extractJSDoc, as an option
extractJSDoc(node, lines) ==
  LET commentLines == JSDocLines(lines, node.startRow - 1, node.startRow - 10, <<>>)
  IN IF Len(commentLines) > 0 THEN <<Join(commentLines, <<"\n">>)>> ELSE <<>>

\* name.replace(/([A-Z])/g, ' $1').replace(/_/g, ' ')
RECURSIVE SpaceOutName(_)
SpaceOutName(name) ==
  IF name = <<>> THEN <<>>
  ELSE IF Head(name) \in Range(UpperLetters)
       THEN <<" ", Head(name)>> \o SpaceOutName(Tail(name))
       ELSE IF Head(name) = "_" THEN <<" ">> \o SpaceOutName(Tail(name))
       ELSE <<Head(name)>> \o SpaceOutName(Tail(name))

\* extractKeywords of a chunk still without keywords
extractKeywords(chunk) ==
  LET pathParts == Head(SplitOn(Last(SplitOn(chunk.filePath, "/")), "."))
      nameWords == SelectSeq(SplitOn(toLowerCase(SpaceOutName(chunk.name)), " "),
                             LAMBDA w : Len(w) > 2)
  IN Deduplicate(<<chunk.name, chunk.type>>
                   \o (IF pathParts # <<>> THEN <<pathParts>> ELSE <<>>)
                   \o nameWords
                   \o (IF chunk.parentClass # <<>> /\ chunk.parentClass[1] # <<>>
                       THEN chunk.parentClass ELSE <<>>))

\* `${filePath}:${startLine}`
createChunkId(filePath, startLine) ==
  filePath \o <<":">> \o NumberToString(startLine)

\* a chunk as extractChunk returns it for a node reported with these values
\* (context.imports, exports and dependencies of a chunk are not kept)
createChunk(filePath, language, decl) ==
  [CodeChunk(createChunkId(filePath, decl.startLine), decl.name, decl.code,
             <<>>, <<>>)
     EXCEPT !.filePath = filePath, !.startLine = decl.startLine,
            !.endLine = decl.endLine, !.type = decl.type,
            !.language = language, !.keywords = decl.keywords]

\* content.slice(start, end) for 0 <= start <= end
StringSlice(text, start, end) == SubSeq(text, start + 1, Min(end, Len(text)))

extractChunk(node, filePath, content, lines, language, chunkType, parentClass) ==
  LET baseChunk ==
        [CodeChunk(createChunkId(filePath, node.startRow + 1), extractName(node),
                   StringSlice(content, node.startIndex, node.endIndex), <<>>, <<>>)
           EXCEPT !.filePath = filePath, !.startLine = node.startRow + 1,
                  !.endLine = node.endRow + 1, !.type = chunkType,
                  !.language = language, !.jsDoc = extractJSDoc(node, lines),
                  !.parentClass = parentClass]
  IN [baseChunk EXCEPT !.keywords = extractKeywords(baseChunk)]

\* visit(node) of extractSemanticChunks on the walk state
\* [chunks, currentClass (option)]; VisitChildren is its loop over the
\* children lo..hi of a node
RECURSIVE visit(_, _, _)
RECURSIVE VisitChildren(_, _, _, _, _)
visit(node, file, walk) ==
  LET nodeTypes == NODE_TYPE_MAPPINGS(file.language)
      chunkType == MapGet(nodeTypes, node.type)
      isClass == chunkType = <<ClassType>>
      tracked == IF isClass THEN <<extractName(node)>> ELSE walk.currentClass
      entered ==
        IF chunkType = <<>> THEN walk
        ELSE [chunks |->
                Append(walk.chunks,
                       extractChunk(node, file.filePath, file.content, file.lines,
                                    file.language, chunkType[1],
                                    IF chunkType[1] = MethodType THEN tracked
                                    ELSE <<>>)),
              currentClass |-> tracked]
      left == VisitChildren(node.children, 1, Len(node.children), file, entered)
  IN IF isClass THEN [left EXCEPT !.currentClass = <<>>] ELSE left

VisitChildren(children, lo, hi, file, walk) ==
  IF lo > hi THEN walk
  ELSE IF lo = hi THEN visit(children[lo], file, walk)
  ELSE LET mid == (lo + hi) \div 2
           first == VisitChildren(children, lo, mid, file, walk)
       IN IF Len(first.chunks) >= 0
          THEN VisitChildren(children, mid + 1, hi, file, first)
          ELSE first

extractSemanticChunks(tree, filePath, content, language) ==
  IF NODE_TYPE_MAPPINGS(language) = <<>> THEN <<>>
  ELSE visit(tree.rootNode,
             [filePath |-> filePath, content |-> content,
              lines |-> SplitOn(content, "\n"), language |-> language],
             [chunks |-> <<>>, currentClass |-> <<>>]).chunks

(***************************************************************************)
(* Non-code chunker (lib/rag/non-code-chunker.ts)                          *)
(***************************************************************************)
\* the characters "." of a regular expression does not match and "^", "$"
\* with the m flag match around (of the characters modelled)
LineTerminators == {"\n", "\r"}

\* /\.md$/i
isMarkdown(filePath) == endsWith(toLowerCase(filePath), <<".", "m", "d">>)

\* /README\.md$/i
isReadme(filePath) == endsWith(toLowerCase(filePath), <<"r", "e", "a", "d", "m", "e", ".", "m", "d">>)

metadataFiles ==
  << <<"p", "a", "c", "k", "a", "g", "e", ".", "j", "s", "o", "n">>,
     <<"C", "a", "r", "g", "o", ".", "t", "o", "m", "l">>,
     <<"g", "o", ".", "m", "o", "d">>,
     <<"r", "e", "q", "u", "i", "r", "e", "m", "e", "n", "t", "s", ".", "t", "x", "t">>,
     <<"s", "e", "t", "u", "p", ".", "p", "y">>,
     <<"p", "y", "p", "r", "o", "j", "e", "c", "t", ".", "t", "o", "m", "l">>,
     <<"c", "o", "m", "p", "o", "s", "e", "r", ".", "j", "s", "o", "n">>,
     <<"G", "e", "m", "f", "i", "l", "e">> >>

isMetadata(filePath) ==
  LET fileName == Last(SplitOn(filePath, "/"))
  IN \E i \in 1..Len(metadataFiles) : metadataFiles[i] = fileName

shouldIndexNonCode(filePath) == isMarkdown(filePath) \/ isMetadata(filePath)

\* the number of "#" the text has from position p on
RECURSIVE HashRun(_, _)
HashRun(text, p) ==
  IF p <= Len(text) /\ text[p] = "#" THEN 1 + HashRun(text, p + 1) ELSE 0

\* the first position from p on whose character is not in S (Len + 1: none)
RECURSIVE SkipWhile(_, _, _)
SkipWhile(text, p, S) ==
  IF p <= Len(text) /\ text[p] \in S THEN SkipWhile(text, p + 1, S) ELSE p

\* the first position from p on whose character is in S (Len + 1: none)
RECURSIVE SkipUntil(_, _, _)
SkipUntil(text, p, S) ==
  IF p <= Len(text) /\ text[p] \notin S THEN SkipUntil(text, p + 1, S) ELSE p

\* the words (longer than 3, lowercased) of the matches of
\* /^#{1,3}\s+(.+)$/gm from position p on, each match stripped of /^#+\s+/:
\* a match starts at a line start with one to three "#", runs over
\* whitespace (line ends included) and then to the end of that line; a match
\* whose (.+) is whitespace holds no word
RECURSIVE HeaderWords(_, _)
HeaderWords(text, p) ==
  IF p > Len(text) THEN <<>>
  ELSE LET atLineStart == p = 1 \/ text[p - 1] \in LineTerminators
           hashes == HashRun(text, p)
           q == SkipWhile(text, p + hashes, Whitespace)
           e == SkipUntil(text, q, LineTerminators)
       IN IF atLineStart /\ hashes \in 1..3 /\ q > p + hashes /\ q <= Len(text)
          THEN WordsLongerThan(toLowerCase(SubSeq(text, q, e - 1)), 3, <<>>)
                 \o HeaderWords(text, e)
          ELSE HeaderWords(text, p + 1)

\* the words (longer than 3, lowercased) of the matches of
\* /\*\*([^*]+)\*\*/g from position p on, each match stripped of its "**"
RECURSIVE BoldWords(_, _)
BoldWords(text, p) ==
  IF p + 4 > Len(text) THEN <<>>
  ELSE LET e == SkipUntil(text, p + 2, {"*"})
       IN IF /\ text[p] = "*" /\ text[p + 1] = "*" /\ e > p + 2
             /\ e + 1 <= Len(text) /\ text[e] = "*" /\ text[e + 1] = "*"
          THEN WordsLongerThan(toLowerCase(SubSeq(text, p + 2, e - 1)), 3, <<>>)
                 \o BoldWords(text, e + 2)
          ELSE BoldWords(text, p + 1)

extractMarkdownKeywords(content) ==
  Deduplicate(HeaderWords(content, 1) \o BoldWords(content, 1))

\* a chunk of a non-code file
NonCodeChunk(filePath, startLine, endLine, type, name, language, code, keywords) ==
  [CodeChunk(createChunkId(filePath, startLine), name, code, <<>>, <<>>)
     EXCEPT !.filePath = filePath, !.startLine = startLine, !.endLine = endLine,
            !.type = type, !.language = language, !.keywords = keywords]

chunkReadme(filePath, content) ==
  NonCodeChunk(filePath, 1, Len(SplitOn(content, "\n")), ReadmeType,
               <<"R", "E", "A", "D", "M", "E">>, Markdown, content,
               <<<<"r", "e", "a", "d", "m", "e">>, <<"d", "o", "c", "u", "m", "e", "n", "t", "a", "t", "i", "o", "n">>>>
                 \o extractMarkdownKeywords(content))

HeaderMatchAnyLevel(line) ==
  LET hashes == HashRun(line, 1)
      q == SkipWhile(line, hashes + 1, Whitespace)
      starts == {j \in (hashes + 2)..Min(q, Len(line)) :
                   \A i \in j..Len(line) : line[i] \notin LineTerminators}
  IN IF hashes >= 1 /\ starts # {}
     THEN <<[level |-> hashes, title |-> trim(SubSeq(line, hashes + 2, Len(line)))]>>
     ELSE <<>>

\* line.match(/^(#{1,3})\s+(.+)$/) on one line, as an option [level, title]
\* with title = match[2].trim(): \s+ takes the longest run of whitespace
\* that leaves (.+) a non-empty rest of the line without line terminator
HeaderMatch(line) ==
  LET hashes == HashRun(line, 1)
      q == SkipWhile(line, hashes + 1, Whitespace)
      starts == {j \in (hashes + 2)..Min(q, Len(line)) :
                   \A i \in j..Len(line) : line[i] \notin LineTerminators}
  IN IF hashes \in 1..3 /\ starts # {}
     THEN <<[level |-> hashes, title |-> trim(SubSeq(line, hashes + 2, Len(line)))]>>
     ELSE <<>>

\* filePath.split('/').pop() || fallback
FileNameOr(filePath, fallback) ==
  IF Last(SplitOn(filePath, "/")) # <<>> THEN Last(SplitOn(filePath, "/"))
  ELSE fallback

chunkMarkdownBySections(filePath, content) ==
  LET lines == SplitOn(content, "\n")
      headerLines == {i \in 1..Len(lines) : HeaderMatch(lines[i]) # <<>>}
      lineOf(k) == CHOOSE i \in headerLines :
                     Cardinality({j \in headerLines : j < i}) = k - 1
      sections == [k \in 1..Cardinality(headerLines) |->
                     [line |-> lineOf(k),
                      level |-> HeaderMatch(lines[lineOf(k)])[1].level,
                      title |-> HeaderMatch(lines[lineOf(k)])[1].title]]
      endLine(idx) == IF idx < Len(sections) THEN sections[idx + 1].line - 1
                      ELSE Len(lines)
      sectionContent(idx) ==
        Join(SubSeq(lines, sections[idx].line, endLine(idx)), <<"\n">>)
  IN IF Len(sections) = 0
     THEN << NonCodeChunk(filePath, 1, Len(lines), DocumentationType,
                          FileNameOr(filePath, <<"d", "o", "c", "u", "m", "e", "n", "t">>),
                          Markdown, content, extractMarkdownKeywords(content)) >>
     ELSE [idx \in 1..Len(sections) |->
             NonCodeChunk(filePath, sections[idx].line, endLine(idx),
                          DocumentationType, sections[idx].title, Markdown,
                          sectionContent(idx),
                          <<toLowerCase(sections[idx].title)>>
                            \o extractMarkdownKeywords(sectionContent(idx)))]

\* What JSON.parse makes of a content is kept with it, content.json:
\* [kind |-> "throws"], [kind |-> "null"], [kind |-> "object", name,
\* description (options), keywords (list), dependencies (the keys)] or
\* [kind |-> "other"] (a number, string, boolean or array).
\* chunkMetadata reads metadata.dependencies outside its try block
chunkMetadataThrows(filePath, content) == content.json.kind = "null"

chunkMetadata(filePath, content) ==
  LET metadata == content.json
      parsed ==
        metadata.name
          \o (IF metadata.description # <<>>
              THEN WordsLongerThan(toLowerCase(metadata.description[1]), 3, <<>>)
              ELSE <<>>)
          \o [i \in 1..Len(metadata.keywords) |-> toLowerCase(metadata.keywords[i])]
          \o metadata.dependencies
      fallback == Slice(WordsLongerThan(toLowerCase(content.text), 3, <<>>), 20)
      keywords == IF metadata.kind = "object" THEN parsed
                  ELSE IF metadata.kind = "other" THEN <<>>
                  ELSE fallback
  IN NonCodeChunk(filePath, 1, Len(SplitOn(content.text, "\n")), MetadataType,
                  FileNameOr(filePath, <<"m", "e", "t", "a", "d", "a", "t", "a">>), Json, content.text,
                  Deduplicate(keywords))

chunkNonCodeFileThrows(filePath, content) ==
  ~isReadme(filePath) /\ ~isMarkdown(filePath) /\ isMetadata(filePath)
    /\ chunkMetadataThrows(filePath, content)

chunkNonCodeFile(filePath, content) ==
  IF isReadme(filePath) THEN <<chunkReadme(filePath, content.text)>>
  ELSE IF isMarkdown(filePath) THEN chunkMarkdownBySections(filePath, content.text)
  ELSE IF isMetadata(filePath) THEN <<chunkMetadata(filePath, content)>>
  ELSE <<>>

(***************************************************************************)
(* Chunking (lib/rag/chunker.ts)                                           *)
(***************************************************************************)
chunkFileThrows(filePath, content) ==
  shouldIndexNonCode(filePath) /\ chunkNonCodeFileThrows(filePath, content)

\* chunkFile when it returns
chunkFile(filePath, content) ==
  IF shouldIndexNonCode(filePath) THEN chunkNonCodeFile(filePath, content)
  ELSE IF isSupported(filePath) /\ parseFile(filePath, content) # <<>>
  THEN extractSemanticChunks(parseFile(filePath, content)[1].tree, filePath,
                             content.text, parseFile(filePath, content)[1].language)
  ELSE <<>>

\* files.flatMap(file => chunkFile(file.path, file.content)) throws
ChunkAllThrows(files) ==
  \E k \in 1..Len(files) : chunkFileThrows(files[k].path, files[k].content)

\* files.flatMap(file => chunkFile(file.path, file.content))
RECURSIVE ChunkAll(_)
ChunkAll(files) ==
  IF files = <<>> THEN <<>>
  ELSE ChunkAll(Front(files)) \o chunkFile(Last(files).path, Last(files).content)

(***************************************************************************)
(* Embedder (lib/rag/embedder): embedChunks                                *)
(***************************************************************************)
BATCH_SIZE == 50

PARALLEL_BATCHES == 10

MAX_EMBEDDING_CODE_SIZE == 10000

\* the text sent to the provider for one chunk; the literal fragments are
\* kept as single elements
createEmbeddingText(chunk) ==
  Join(<< <<"File: ">> \o chunk.filePath,
          <<"Type: ">> \o chunk.type,
          <<"Name: ">> \o chunk.name,
          <<"Language: ">> \o chunk.language >>
       \o (IF chunk.jsDoc # <<>>
           THEN << <<"Documentation: ">> \o chunk.jsDoc[1] >> ELSE <<>>)
       \o (IF chunk.parentClass # <<>>
           THEN << <<"Class: ">> \o chunk.parentClass[1] >> ELSE <<>>)
       \o (IF Len(chunk.code) > MAX_EMBEDDING_CODE_SIZE
           THEN << <<"Code (truncated to 10000 chars):\n">>
                     \o Slice(chunk.code, MAX_EMBEDDING_CODE_SIZE) \o <<"...">> >>
           ELSE << <<"Code:\n">> \o chunk.code >>),
       <<"\n\n">>)

\* the loop "for (let i = 0; i < chunks.length; i += BATCH_SIZE)".  A batch,
\* chunks.slice(i, i + BATCH_SIZE), shares its chunk objects with chunks: it
\* is kept as the 1-based positions in chunks of the objects it holds.
BatchTasks(chunks) ==
  [k \in 1..((Len(chunks) + BATCH_SIZE - 1) \div BATCH_SIZE) |->
     LET i == (k - 1) * BATCH_SIZE
     IN [batch |-> [j \in 1..(Min(i + BATCH_SIZE, Len(chunks)) - i) |-> i + j],
         batchNumber |-> (i \div BATCH_SIZE) + 1,
         startIndex |-> i]]

\* batch.map(createEmbeddingText): the values of one embedMany call
EmbeddingTexts(chunks, task) ==
  [j \in 1..Len(task.batch) |-> createEmbeddingText(chunks[task.batch[j]])]

\* batchTasks.slice(i, i + PARALLEL_BATCHES), named by batch number
parallelTasksAll(tasks, i) ==
  {tasks[k].batchNumber : k \in (i + 1)..Len(tasks)}

parallelTasks(tasks, i) ==
  {tasks[k].batchNumber : k \in (i + 1)..Min(i + PARALLEL_BATCHES, Len(tasks))}

\* parallelTasks.map(async ...) runs every callback up to its embedMany call
IssueWave(calls, tasks, i) ==
  [k \in 1..Len(calls) |->
     IF k \in parallelTasks(tasks, i)
     THEN [status |-> "inflight", embeddings |-> <<>>]
     ELSE calls[k]]

\* Promise.all(parallelTasks.map(...)) has resolved
WaveResolved(calls, tasks, i) ==
  \A k \in parallelTasks(tasks, i) : calls[k].status = "ok"

\* Promise.all rejects as soon as one of its promises rejects
PromiseAllNeverRejects(calls, tasks, i) == FALSE

PromiseAllRejects(calls, tasks, i) ==
  \E k \in parallelTasks(tasks, i) : calls[k].status = "failed"

\* results.push(...parallelResults), in task order
WaveResults(calls, tasks, i) ==
  LET wanted == SelectSeq(tasks, LAMBDA t : t.batchNumber \in parallelTasks(tasks, i))
  IN [k \in 1..Len(wanted) |->
        [embeddings |-> calls[wanted[k].batchNumber].embeddings,
         startIndex |-> wanted[k].startIndex]]

\* AttachEmbeddings, had chunkIndex been idx without startIndex
AttachEmbeddingsNoOffset(chunks, res) ==
  [c \in 1..Len(chunks) |->
     LET hits == {r \in 1..Len(res) : c <= Len(res[r].embeddings)}
     IN IF hits = {} THEN chunks[c]
        ELSE LET r == CHOOSE x \in hits : \A y \in hits : y <= x
             IN [chunks[c] EXCEPT !.embedding = <<res[r].embeddings[c]>>]]

\* "Attach embeddings to chunks": chunksWithEmbeddings[startIndex + idx] gets
\* embedding idx of each result, a later result overwriting an earlier one
AttachEmbeddings(chunks, res) ==
  [c \in 1..Len(chunks) |->
     LET hits == {r \in 1..Len(res) :
                    /\ res[r].startIndex < c
                    /\ c <= res[r].startIndex + Len(res[r].embeddings)}
     IN IF hits = {} THEN chunks[c]
        ELSE LET r == CHOOSE x \in hits : \A y \in hits : y <= x
             IN [chunks[c] EXCEPT
                   !.embedding = <<res[r].embeddings[c - res[r].startIndex]>>]]

EmbedError(batchNumber) == [error |-> "embedMany failed", batch |-> batchNumber]

(***************************************************************************)
(* RAGIndex.build (lib/rag/index)                                          *)
(***************************************************************************)
\* the TypeError chunkMetadata throws on a manifest whose JSON is null
ChunkError == "Cannot read properties of null (reading 'dependencies')"

\* the fields a build installs
IndexSnapshot ==
  [chunks |-> thisChunks, codeBM25 |-> codeBM25, textBM25 |-> textBM25,
   hybridSearch |-> hybridSearch]

\* embedChunks(chunks) up to the await of its first Promise.all
embedChunksCall(chunks) ==
  LET tasks == BatchTasks(chunks)
  IN /\ bpc' = "embed"
     /\ batchTasks' = tasks
     /\ wave' = 0
     /\ batchResults' = <<>>
     /\ batchCalls' = IssueWave([k \in 1..Len(tasks) |->
                                   [status |-> "queued", embeddings |-> <<>>]],
                                tasks, 0)

\* the index of the next chunk compressChunks calls the summarizer for
NextLargeChunk(chunks, from, threshold) ==
  LET large == {i \in from..Len(chunks) : Len(chunks[i].code) > threshold}
  IN IF large = {} THEN Len(chunks) + 1 ELSE SetMin(large)

\* compressChunks from chunk "from" on, up to its next await; when the loop
\* ends, build goes on to step 3
compressChunksFrom(chunks, from, count) ==
  LET i == NextLargeChunk(chunks, from, thisConfig[1].compressionThreshold)
  IN /\ allChunks' = chunks
     /\ ci' = i
     /\ compressedCount' = count
     /\ IF i <= Len(chunks)
        THEN /\ bpc' = "compress"
             /\ batchTasks' = <<>>
             /\ batchCalls' = <<>>
             /\ wave' = 0
             /\ batchResults' = <<>>
        ELSE embedChunksCall(chunks)

\* build, had it reset the fields of the index before chunking the files
buildResetsIndex(files) ==
  /\ bpc = "idle"
  /\ thisConfig # <<>>
  /\ buildCalled' = TRUE
  /\ bprev' = <<IndexSnapshot>>
  /\ IF ChunkAllThrows(files)
     THEN /\ bpc' = "rejected"
          /\ berror' = <<ChunkError>>
          /\ allChunks' = <<>>
          /\ ci' = 0
          /\ compressedCount' = 0
          /\ batchTasks' = <<>>
          /\ batchCalls' = <<>>
          /\ wave' = 0
          /\ batchResults' = <<>>
     ELSE /\ berror' = <<>>
          /\ IF thisConfig[1].enableCompression
             THEN compressChunksFrom(ChunkAll(files), 1, 0)
             ELSE /\ allChunks' = ChunkAll(files)
                  /\ ci' = 0
                  /\ compressedCount' = 0
                  /\ embedChunksCall(ChunkAll(files))
  /\ thisChunks' = <<>>
  /\ codeBM25' = <<>>
  /\ textBM25' = <<>>
  /\ hybridSearch' = <<>>
  /\ UNCHANGED thisConfig

build(files) ==
  /\ bpc = "idle"
  /\ thisConfig # <<>>
  /\ buildCalled' = TRUE
  /\ bprev' = <<IndexSnapshot>>
  /\ IF ChunkAllThrows(files)
     THEN /\ bpc' = "rejected"
          /\ berror' = <<ChunkError>>
          /\ allChunks' = <<>>
          /\ ci' = 0
          /\ compressedCount' = 0
          /\ batchTasks' = <<>>
          /\ batchCalls' = <<>>
          /\ wave' = 0
          /\ batchResults' = <<>>
     ELSE /\ berror' = <<>>
          /\ IF thisConfig[1].enableCompression
             THEN compressChunksFrom(ChunkAll(files), 1, 0)
             ELSE /\ allChunks' = ChunkAll(files)
                  /\ ci' = 0
                  /\ compressedCount' = 0
                  /\ embedChunksCall(ChunkAll(files))
  /\ UNCHANGED <<thisConfig, thisChunks, codeBM25, textBM25, hybridSearch>>

\* codeSummarizerAgent.execute returns for chunk ci
SummarizerReturns(summary) ==
  /\ bpc = "compress"
  /\ compressChunksFrom(
       [allChunks EXCEPT ![ci] = [@ EXCEPT !.code = summary,
                                           !.compressed = TRUE,
                                           !.originalSize = <<Len(summary)>>]],
       ci + 1, compressedCount + 1)
  /\ UNCHANGED <<indexVars, berror, bprev>>

\* SummarizerFails, had compressChunks no try/catch around the call: the
\* error propagates and build rejects
SummarizerFailsRejectsBuild ==
  /\ bpc = "compress"
  /\ bpc' = "rejected"
  /\ berror' = <<"Summarizer failed">>
  /\ UNCHANGED <<allChunks, ci, compressedCount, batchTasks, batchCalls, wave,
                 batchResults>>
  /\ UNCHANGED <<indexVars, bprev>>

\* codeSummarizerAgent.execute throws for chunk ci: caught and logged
SummarizerFails ==
  /\ bpc = "compress"
  /\ compressChunksFrom(allChunks, ci + 1, compressedCount)
  /\ UNCHANGED <<indexVars, berror, bprev>>

\* the embedMany call of batch b returns
BatchReturns(b, embeddings) ==
  /\ b \in 1..Len(batchCalls)
  /\ batchCalls[b].status = "inflight"
  /\ batchCalls' = [batchCalls EXCEPT ![b] = [status |-> "ok",
                                              embeddings |-> embeddings]]
  /\ UNCHANGED <<indexVars, bpc, allChunks, ci, compressedCount, batchTasks,
                 wave, batchResults, berror, bprev>>

\* the embedMany call of batch b throws: the callback logs and rethrows, the
\* wave's Promise.all rejects, and so do embedChunks and build
BatchFails(b) ==
  /\ b \in 1..Len(batchCalls)
  /\ batchCalls[b].status = "inflight"
  /\ batchCalls' = [batchCalls EXCEPT ![b].status = "failed"]
  /\ IF bpc = "embed" /\ PromiseAllRejects(batchCalls', batchTasks, wave)
     THEN /\ bpc' = "rejected"
          /\ berror' = <<EmbedError(b)>>
     ELSE UNCHANGED <<bpc, berror>>
  /\ UNCHANGED <<indexVars, allChunks, ci, compressedCount, batchTasks, wave,
                 batchResults, bprev>>

\* a wave has resolved and batch tasks remain: the next wave is issued
embedChunksNextWave ==
  /\ bpc = "embed"
  /\ WaveResolved(batchCalls, batchTasks, wave)
  /\ wave + PARALLEL_BATCHES < Len(batchTasks)
  /\ batchResults' = batchResults \o WaveResults(batchCalls, batchTasks, wave)
  /\ wave' = wave + PARALLEL_BATCHES
  /\ batchCalls' = IssueWave(batchCalls, batchTasks, wave')
  /\ UNCHANGED <<indexVars, bpc, allChunks, ci, compressedCount, batchTasks,
                 berror, bprev>>

\* embedChunksResolve, had build() made the new hybrid search over the chunk
\* array of the earlier build
embedChunksResolveStaleChunks ==
  /\ bpc = "embed"
  /\ WaveResolved(batchCalls, batchTasks, wave)
  /\ wave + PARALLEL_BATCHES >= Len(batchTasks)
  /\ batchResults' = batchResults \o WaveResults(batchCalls, batchTasks, wave)
  /\ wave' = wave + PARALLEL_BATCHES
  /\ thisChunks' = AttachEmbeddings(allChunks, batchResults')
  /\ codeBM25' = <<createCodeBM25(thisChunks')>>
  /\ textBM25' = <<createTextBM25(thisChunks')>>
  /\ hybridSearch' = <<HybridSearch(thisChunks, codeBM25'[1], textBM25'[1])>>
  /\ bpc' = "done"
  /\ UNCHANGED <<thisConfig, buildCalled, allChunks, ci, compressedCount,
                 batchTasks, batchCalls, berror, bprev>>

\* the last wave has resolved: embedChunks returns, and build runs its steps
\* 4 and 5 without suspending
embedChunksResolve ==
  /\ bpc = "embed"
  /\ WaveResolved(batchCalls, batchTasks, wave)
  /\ wave + PARALLEL_BATCHES >= Len(batchTasks)
  /\ batchResults' = batchResults \o WaveResults(batchCalls, batchTasks, wave)
  /\ wave' = wave + PARALLEL_BATCHES
  /\ thisChunks' = AttachEmbeddings(allChunks, batchResults')
  /\ codeBM25' = <<createCodeBM25(thisChunks')>>
  /\ textBM25' = <<createTextBM25(thisChunks')>>
  /\ hybridSearch' = <<HybridSearch(thisChunks', codeBM25'[1], textBM25'[1])>>
  /\ bpc' = "done"
  /\ UNCHANGED <<thisConfig, buildCalled, allChunks, ci, compressedCount,
                 batchTasks, batchCalls, berror, bprev>>

\* the caller has taken build's outcome and no call of it is left in flight
BuildReturn ==
  /\ bpc \in {"done", "rejected"}
  /\ \A b \in 1..Len(batchCalls) : batchCalls[b].status # "inflight"
  /\ bpc' = "idle"
  /\ allChunks' = <<>>
  /\ ci' = 0
  /\ compressedCount' = 0
  /\ batchTasks' = <<>>
  /\ batchCalls' = <<>>
  /\ wave' = 0
  /\ batchResults' = <<>>
  /\ berror' = <<>>
  /\ bprev' = <<>>
  /\ UNCHANGED indexVars

(***************************************************************************)
(* RAGIndex.search / searchWithBreakdown (lib/rag/index)                   *)
(***************************************************************************)
NotBuiltError == "Index not built. Call build() first."

QueryEmbeddingError == "embed failed"

DimensionsError == "Vectors must have same dimensions"

TypeError == "Cannot read properties of undefined (reading 'search')"

\* the guard "if (!this.hybridSearch)"
NotBuiltNever(hybrid) == FALSE

NotBuilt(hybrid) == hybrid = <<>>

NoChunkEmbedded(chunks) == \A i \in 1..Len(chunks) : ~HasEmbedding(chunks[i])

\* search(query) when breakdown is FALSE, searchWithBreakdown(query) when
\* TRUE, up to the await of generateEmbedding
search(query, breakdown) ==
  /\ spc = "idle"
  /\ rpc = "idle"
  /\ thisConfig # <<>>
  /\ sargs' = <<[query |-> query, breakdown |-> breakdown,
                 builtEmpty |-> /\ hybridSearch # <<>>
                                /\ NoChunkEmbedded(thisChunks)]>>
  /\ sused' = <<>>
  /\ sresult' = <<>>
  /\ IF NotBuilt(hybridSearch)
     THEN /\ spc' = "threw"
          /\ serror' = <<NotBuiltError>>
          /\ sissued' = <<>>
     ELSE /\ spc' = "embedding"
          /\ serror' = <<>>
          /\ sissued' = <<"embedding">>
  /\ UNCHANGED <<rerankVars, indexVars, buildVars>>

\* generateEmbedding(query) returns: the hybrid search runs and
\* rerankResults is entered, up to the await of its scoring calls
QueryEmbeddingReturns(queryEmbedding) ==
  /\ spc = "embedding"
  /\ IF hybridSearch = <<>>
     THEN /\ spc' = "threw"
          /\ serror' = <<TypeError>>
          /\ UNCHANGED <<rerankVars, sused, sissued>>
     ELSE IF HybridSearchThrows(hybridSearch[1], queryEmbedding)
     THEN /\ spc' = "threw"
          /\ serror' = <<DimensionsError>>
          /\ sused' = hybridSearch
          /\ UNCHANGED <<rerankVars, sissued>>
     ELSE /\ rerankResults(
               sargs[1].query, queryEmbedding,
               HybridSearchSearch(hybridSearch[1], sargs[1].query, queryEmbedding,
                                  thisConfig[1].reranking.stage1TopK),
               [stage2TopK |-> thisConfig[1].reranking.stage2TopK,
                stage3TopK |-> thisConfig[1].reranking.stage3TopK])
          /\ spc' = "reranking"
          /\ sused' = hybridSearch
          /\ sissued' = sissued \o [i \in 1..Len(rankCalls') |-> "scoring"]
          /\ UNCHANGED serror
  /\ UNCHANGED <<sargs, sresult, indexVars, buildVars>>

\* generateEmbedding(query) throws: so does the query
QueryEmbeddingFails ==
  /\ spc = "embedding"
  /\ spc' = "threw"
  /\ serror' = <<QueryEmbeddingError>>
  /\ UNCHANGED <<sargs, sissued, sused, sresult, rerankVars, indexVars, buildVars>>

\* searchResolves, had the ranking sorted the index's chunk array in place
\* (here: left it in reverse order) instead of sorting a copy
searchResolvesSortsChunks ==
  /\ spc = "reranking"
  /\ rpc \in {"done", "threw"}
  /\ IF rpc = "done"
     THEN /\ spc' = "returned"
          /\ sresult' = IF sargs[1].breakdown
                        THEN <<[query |-> sargs[1].query, stage1 |-> stage1,
                                stage2 |-> stage2, stage3 |-> stage3]>>
                        ELSE <<stage3>>
          /\ UNCHANGED serror
     ELSE /\ spc' = "threw"
          /\ serror' = <<DimensionsError>>
          /\ UNCHANGED sresult
  /\ thisChunks' = [i \in 1..Len(thisChunks) |->
                      thisChunks[Len(thisChunks) + 1 - i]]
  /\ UNCHANGED <<thisConfig, codeBM25, textBM25, hybridSearch, buildCalled>>
  /\ UNCHANGED <<sargs, sissued, sused, rerankVars, buildVars>>

\* rerankResults has returned (or thrown): the query resolves (or rejects)
searchResolves ==
  /\ spc = "reranking"
  /\ rpc \in {"done", "threw"}
  /\ IF rpc = "done"
     THEN /\ spc' = "returned"
          /\ sresult' = IF sargs[1].breakdown
                        THEN <<[query |-> sargs[1].query, stage1 |-> stage1,
                                stage2 |-> stage2, stage3 |-> stage3]>>
                        ELSE <<stage3>>
          /\ UNCHANGED serror
     ELSE /\ spc' = "threw"
          /\ serror' = <<DimensionsError>>
          /\ UNCHANGED sresult
  /\ UNCHANGED <<sargs, sissued, sused, rerankVars, indexVars, buildVars>>

\* the caller has taken the query's outcome
SearchReturn ==
  /\ spc \in {"returned", "threw"}
  /\ spc' = "idle"
  /\ sargs' = <<>>
  /\ sissued' = <<>>
  /\ sused' = <<>>
  /\ sresult' = <<>>
  /\ serror' = <<>>
  /\ rpc' = "idle"
  /\ rargs' = <<>>
  /\ stage1' = <<>>
  /\ stage2' = <<>>
  /\ stage3' = <<>>
  /\ rankCalls' = <<>>
  /\ rankPromises' = <<>>
  /\ scored' = <<>>
  /\ UNCHANGED <<indexVars, buildVars>>

(***************************************************************************)
(* Inputs of the index                                                     *)
(***************************************************************************)
MaxIndexChunks == 2    \* most chunks the files of one small build yield
MaxIndexFiles == 2     \* most files of one small build
MaxEmbedChunks == 501  \* most chunks the file of one long build yields
MaxEmbedFailures == 1  \* most embedMany calls that fail during one long build

Decl(name, startLine, endLine, code, keywords) ==
  [name |-> name, type |-> FunctionType, startLine |-> startLine,
   endLine |-> endLine, code |-> code, keywords |-> keywords]

\* the row of the character at a 0-based index of a text
RowOf(text, index) == Cardinality({i \in 1..Min(index, Len(text)) : text[i] = "\n"})

\* the node the parser reports for text[startIndex, endIndex)
SyntaxNode(text, type, name, startIndex, endIndex, children) ==
  [type |-> type, name |-> name, startIndex |-> startIndex,
   endIndex |-> endIndex, startRow |-> RowOf(text, startIndex),
   endRow |-> RowOf(text, endIndex), children |-> children]

JsonValue(kind, name, description, keywords, dependencies) ==
  [kind |-> kind, name |-> name, description |-> description,
   keywords |-> keywords, dependencies |-> dependencies]

NotJson == JsonValue("throws", <<>>, <<>>, <<>>, <<>>)

\* a source file the parser parses into a program of these declarations
ParsedContent(text, decls) ==
  [text |-> text,
   tree |-> <<[rootNode |-> SyntaxNode(text, "program", <<>>, 0, Len(text), decls)]>>,
   json |-> NotJson]

\* a file the parser is not given or fails on
PlainContent(text) == [text |-> text, tree |-> <<>>, json |-> NotJson]

\* a manifest file and what JSON.parse makes of it
JsonContent(text, json) == [text |-> text, tree |-> <<>>, json |-> json]

FunctionNode(text, name, startIndex, endIndex) ==
  SyntaxNode(text, "function_declaration", <<name>>, startIndex, endIndex, <<>>)

\* a short function, and one whose code is over the compression threshold
TextF == <<"f">>

TextFG == <<"f", "\n", "g", "(", "\n", ")">>

NullManifest ==
  [path |-> <<"p", "a", "c", "k", "a", "g", "e", ".", "j", "s", "o", "n">>,
   content |-> JsonContent(<<"n", "u", "l", "l">>, JsonValue("null", <<>>, <<>>, <<>>, <<>>))]

\* two source files, a file of a type the chunker does not index and a
\* manifest chunkFile throws on
IndexFiles ==
  { [path |-> <<"a", ".", "t", "s">>,
     content |-> ParsedContent(TextF, <<FunctionNode(TextF, <<"f">>, 0, 1)>>)],
    [path |-> <<"b", ".", "t", "s">>,
     content |-> ParsedContent(TextFG, <<FunctionNode(TextFG, <<"f">>, 0, 1),
                                         FunctionNode(TextFG, <<"g">>, 2, 6)>>)],
    [path |-> <<"c", ".", "b", "i", "n">>, content |-> PlainContent(<<>>)],
    NullManifest }

IndexFileLists ==
  {files \in SeqsUpTo(IndexFiles, MaxIndexFiles) :
     /\ NoDuplicates(files)
     /\ ChunkAllThrows(files) \/ Len(ChunkAll(files)) <= MaxIndexChunks}

\* one file of n one-line functions
LongText(n) == [i \in 1..(2 * n - 1) |-> IF i % 2 = 1 THEN "f" ELSE "\n"]

LongFile(n) ==
  [path |-> <<"l", ".", "t", "s">>,
   content |->
     ParsedContent(IF n = 0 THEN <<>> ELSE LongText(n),
                   [k \in 1..n |->
                      [type |-> "function_declaration", name |-> << <<"f">> >>,
                       startIndex |-> 2 * (k - 1), endIndex |-> 2 * k - 1,
                       startRow |-> k - 1, endRow |-> k - 1, children |-> <<>>]])]

EmbedFileLists ==
  { <<LongFile(n)>> : n \in {0, 1, BATCH_SIZE + 1, MaxEmbedChunks} }

IndexConfig(enableCompression) ==
  [enableCompression |-> enableCompression, compressionThreshold |-> 2,
   reranking |-> [stage1TopK |-> MaxTopK + 1, stage2TopK |-> MaxTopK,
                  stage3TopK |-> 1]]

Summaries == { <<"g">> }

\* "g" is a term of the code and of the metadata of DeclG only
SearchQueries == { <<"G", " ", "x">> }

IndexQueryEmbeddings == { <<2, 1>> }

IndexRankings == { [score |-> 10, explanation |-> "ok"] }

\* what embedMany can return for a batch of n texts: an embedding for each,
\* or for the first few only
ChunkEmbeddings == << <<1, 0>>, <<0, 1>>, <<1, 1>>, <<1, 2>> >>

EmbedResponses(n) == {SubSeq(ChunkEmbeddings, 1, k) : k \in 0..n}

\* one full response for a long batch
FullResponse(task) ==
  [j \in 1..Len(task.batch) |-> <<task.startIndex + j, 1>>]

(***************************************************************************)
(* Specifications of the index                                             *)
(***************************************************************************)
\* new RAGIndex(config)
RAGIndexNew(cfg) ==
  /\ thisConfig = <<cfg>>
  /\ IndexFields
  /\ BuildIdle
  /\ SearchIdle

BuildCall == \E files \in IndexFileLists : build(files)

SummarizerSettle ==
  \/ \E summary \in Summaries : SummarizerReturns(summary)
  \/ SummarizerFails

BatchSettle ==
  \E b \in 1..Len(batchCalls) :
     \/ \E embeddings \in EmbedResponses(Len(batchTasks[b].batch)) :
           BatchReturns(b, embeddings)
     \/ BatchFails(b)

SearchCall ==
  \E query \in SearchQueries, breakdown \in BOOLEAN : search(query, breakdown)

QueryEmbeddingSettle ==
  \/ \E queryEmbedding \in IndexQueryEmbeddings :
        QueryEmbeddingReturns(queryEmbedding)
  \/ QueryEmbeddingFails

ScoringSettle ==
  \E i \in 1..Len(rankCalls) :
     \/ \E ranking \in IndexRankings : RankingReturns(i, ranking)
     \/ RankingFails(i)

\* one index over small files: a query may be issued at any moment, also
\* while a build runs; a build is started between two queries
InitIndex == RAGIndexNew(IndexConfig(TRUE)) /\ RerankInit /\ NoGraph /\ NoCall

NextIndex ==
  \/ spc = "idle" /\ BuildCall /\ UNCHANGED <<callVars, graphVars, rerankVars, searchVars>>
  \/ SummarizerSettle /\ UNCHANGED <<callVars, graphVars, rerankVars, searchVars>>
  \/ BatchSettle /\ UNCHANGED <<callVars, graphVars, rerankVars, searchVars>>
  \/ embedChunksResolve /\ UNCHANGED <<callVars, graphVars, rerankVars, searchVars>>
  \/ BuildReturn /\ UNCHANGED <<callVars, graphVars, rerankVars, searchVars>>
  \/ SearchCall /\ UNCHANGED <<callVars, graphVars>>
  \/ QueryEmbeddingSettle /\ UNCHANGED <<callVars, graphVars>>
  \/ ScoringSettle /\ UNCHANGED <<callVars, graphVars, indexVars, buildVars, searchVars>>
  \/ rerankByLLMResolve /\ UNCHANGED <<callVars, graphVars, indexVars, buildVars, searchVars>>
  \/ searchResolves /\ UNCHANGED <<callVars, graphVars>>
  \/ SearchReturn /\ UNCHANGED <<callVars, graphVars>>

SpecIndex == InitIndex /\ [][NextIndex]_vars

LongBuildCall == ~buildCalled /\ \E files \in EmbedFileLists : build(files)

FailedCalls == {b \in 1..Len(batchCalls) : batchCalls[b].status = "failed"}

LongBatchSettle ==
  \E b \in 1..Len(batchCalls) :
     \/ BatchReturns(b, FullResponse(batchTasks[b]))
     \/ Cardinality(FailedCalls) < MaxEmbedFailures /\ BatchFails(b)

\* the first build of an index over one long file: the waves of embedChunks
InitEmbed == RAGIndexNew(IndexConfig(FALSE)) /\ RerankInit /\ NoGraph /\ NoCall

NextEmbed ==
  \/ LongBuildCall /\ UNCHANGED <<callVars, graphVars, rerankVars, searchVars>>
  \/ LongBatchSettle /\ UNCHANGED <<callVars, graphVars, rerankVars, searchVars>>
  \/ embedChunksNextWave /\ UNCHANGED <<callVars, graphVars, rerankVars, searchVars>>
  \/ embedChunksResolve /\ UNCHANGED <<callVars, graphVars, rerankVars, searchVars>>
  \/ BuildReturn /\ UNCHANGED <<callVars, graphVars, rerankVars, searchVars>>

SpecEmbed == InitEmbed /\ [][NextEmbed]_vars

\* the provider answers every call in flight, and the continuation of a
\* resolved wave runs
SpecEmbedFair ==
  /\ SpecEmbed
  /\ WF_vars(LongBatchSettle /\ UNCHANGED <<callVars, graphVars, rerankVars, searchVars>>)
  /\ WF_vars(embedChunksNextWave /\ UNCHANGED <<callVars, graphVars, rerankVars, searchVars>>)

(***************************************************************************)
(* Claims on the index                                                     *)
(***************************************************************************)
\* C4: a query (search or searchWithBreakdown) on an index on which build()
\* has never been called rejects with 'Index not built. Call build() first.'
\* and has issued no embedding call and no scoring call.
C4_NotBuiltRaises ==
  (spc # "idle" /\ ~buildCalled) =>
    /\ spc = "threw"
    /\ serror = <<NotBuiltError>>
    /\ sresult = <<>>
    /\ sissued = <<>>
    /\ rankCalls = <<>>

C4_Witness ==
  /\ ~buildCalled
  /\ spc = "threw"
  /\ serror = <<NotBuiltError>>
  /\ sargs[1].breakdown

\* a finished search(query) that was called on a built index none of whose
\* chunks has an embedding, and that did not search a later build's chunks
SearchedEmptyIndex ==
  /\ spc \in {"returned", "threw"}
  /\ ~sargs[1].breakdown
  /\ sargs[1].builtEmpty
  /\ sused # <<>> => NoChunkEmbedded(sused[1].chunks)

\* C5 as stated: after build() has completed on an index in which no chunk
\* has an embedding, search(query) returns the empty list and does not raise.
C5_EmptyIndexNeverRaises ==
  SearchedEmptyIndex => (spc = "returned" /\ sresult = << <<>> >>)

\* C5, amended: after build() has completed on an index in which no chunk
\* has an embedding, search(query) returns the empty list when its
\* query-embedding call returns, and rejects with that call's error, having
\* searched nothing, when the call fails.
C5_EmptyIndexReturnsEmpty ==
  SearchedEmptyIndex =>
    IF sused # <<>>
    THEN spc = "returned" /\ sresult = << <<>> >>
    ELSE spc = "threw" /\ serror = <<QueryEmbeddingError>> /\ sissued = <<"embedding">>

\* the index holds a chunk, without embedding, that the lexical lists found
C5_Witness ==
  /\ SearchedEmptyIndex
  /\ spc = "returned"
  /\ sused[1].chunks # <<>>
  /\ stage1 # <<>>

\* C6: once an embedMany call of a build has failed, build() has rejected
\* with the error of a failed call, no batch of a later wave has been issued,
\* and this.chunks, both BM25 indexes and the hybrid search are the ones the
\* index had when build() was called.
C6_FailedBatchAbortsBuild ==
  (bpc # "idle" /\ FailedCalls # {}) =>
    /\ bpc = "rejected"
    /\ berror # <<>>
    /\ berror[1] \in {EmbedError(b) : b \in FailedCalls}
    /\ \A b \in 1..Len(batchCalls) :
          b > wave + PARALLEL_BATCHES => batchCalls[b].status = "queued"
    /\ IndexSnapshot = bprev[1]

\* a call of the first wave failed, another returned, the second wave waits
C6_Witness ==
  /\ bpc = "rejected"
  /\ Len(batchTasks) > PARALLEL_BATCHES
  /\ \E b \in 1..PARALLEL_BATCHES : batchCalls[b].status = "ok"
  /\ batchCalls[Len(batchCalls)].status = "queued"

RECURSIVE ConcatBatches(_)
ConcatBatches(tasks) ==
  IF tasks = <<>> THEN <<>>
  ELSE ConcatBatches(Front(tasks)) \o Last(tasks).batch

InFlight == {b \in 1..Len(batchCalls) : batchCalls[b].status = "inflight"}

Issued == {b \in 1..Len(batchCalls) : batchCalls[b].status # "queued"}

\* the batches are consecutive slices of at most BATCH_SIZE chunks that
\* together hold every chunk once; at most PARALLEL_BATCHES calls are in
\* flight; a batch not yet issued is queued
BatchesBounded ==
  bpc = "embed" =>
    /\ ConcatBatches(batchTasks) = [c \in 1..Len(allChunks) |-> c]
    /\ \A k \in 1..Len(batchTasks) : Len(batchTasks[k].batch) \in 1..BATCH_SIZE
    /\ Len(batchCalls) = Len(batchTasks)
    /\ Cardinality(InFlight) <= PARALLEL_BATCHES
    /\ \A b \in 1..Len(batchCalls) :
          batchCalls[b].status \in {"queued", "inflight", "ok", "failed"}

CallReturn ==
  /\ callee # "none"
  /\ callee' = "none"
  /\ callArgs' = <<>>
  /\ callOutcome' = <<>>

Returned(value) == <<[threw |-> FALSE, value |-> value]>>

Thrown(error) == <<[threw |-> TRUE, value |-> error]>>

(***************************************************************************)
(* reciprocalRankFusion on the three ranked lists of a hybrid search       *)
(***************************************************************************)
MaxFusionChunks == 3  \* most chunks the ranked lists are drawn from

\* the chunks of one file f: declarations a and b start on line 1, every
\* further declaration on a line of its own
FusionChunks ==
  [k \in 1..MaxFusionChunks |->
     LET line == IF k = 1 THEN 1 ELSE k - 1
     IN createChunk(<<"f">>, TypeScript,
                    Decl(<<LowerLetters[k]>>, line, line, <<LowerLetters[k]>>, <<>>))]

\* a ranked list holds a chunk at most once
RankedLists ==
  {[r \in 1..Len(s) |-> [chunk |-> FusionChunks[s[r]], score |-> NumScore(1)]] :
     s \in {q \in SeqsUpTo(1..MaxFusionChunks, MaxFusionChunks) :
              \A i, j \in 1..Len(q) : i # j => q[i] # q[j]}}

reciprocalRankFusionCall ==
  /\ callee = "none"
  /\ \E vector \in RankedLists, code \in RankedLists, text \in RankedLists,
        topK \in 1..MaxTopK :
       /\ callee' = "reciprocalRankFusion"
       /\ callArgs' = <<(<<vector, code, text>>), topK>>
       /\ callOutcome' =
            Returned(reciprocalRankFusion(<<vector, code, text>>, topK, RRF_K))

InitFusion == NoCall /\ RerankInit /\ NoGraph /\ NoIndex

NextFusion ==
  \/ reciprocalRankFusionCall
       /\ UNCHANGED <<rerankVars, graphVars, indexVars, buildVars, searchVars>>
  \/ CallReturn
       /\ UNCHANGED <<rerankVars, graphVars, indexVars, buildVars, searchVars>>

SpecFusion == InitFusion /\ [][NextFusion]_vars

\* the chunks that appear in at least one list
Appearing(resultSets) ==
  UNION {{resultSets[l][r].chunk : r \in 1..Len(resultSets[l])} :
           l \in 1..Len(resultSets)}

RanksOf(list, c) == {r \in 1..Len(list) : list[r].chunk = c}

\* sum, over the first n lists that contain c, of 1 / (60 + rank of c)
RECURSIVE SumOfReciprocals(_, _, _)
SumOfReciprocals(c, resultSets, n) ==
  IF n = 0 THEN RrfScore(0, 1)
  ELSE LET sum == SumOfReciprocals(c, resultSets, n - 1)
           ranks == RanksOf(resultSets[n], c)
       IN IF ranks = {} THEN sum ELSE AddReciprocal(sum, 60 + SetMin(ranks))

SameScore(a, b) == ~ScoreGt(a, b) /\ ~ScoreGt(b, a)

FusionExact(resultSets, topK, out) ==
  LET all == Appearing(resultSets)
      fused(c) == SumOfReciprocals(c, resultSets, Len(resultSets))
  IN /\ Len(out) = Min(topK, Cardinality(all))
     /\ \A i \in 1..Len(out) :
          /\ out[i].chunk \in all
          /\ SameScore(out[i].score, fused(out[i].chunk))
          /\ RanksOf(out, out[i].chunk) = {i}
          /\ \A j \in (i + 1)..Len(out) : ~ScoreGt(out[j].score, out[i].score)
          /\ \A c \in all :
               RanksOf(out, c) = {} => ~ScoreGt(fused(c), out[i].score)
          /\ \A l \in 1..3 :
               (/\ RanksOf(resultSets[l], out[i].chunk) = {1}
                /\ \A m \in 1..3 :
                     m # l => RanksOf(resultSets[m], out[i].chunk) = {})
                 => SameScore(out[i].score, RrfScore(1, 61))
          /\ (\A l \in 1..3 : RanksOf(resultSets[l], out[i].chunk) = {1})
               => SameScore(out[i].score, RrfScore(3, 61))

\* C11: reciprocalRankFusion returns every chunk that appears in at least
\* one list once, with the score sum over the lists holding it of
\* 1 / (60 + rank), in descending order of score, cut to topK (1st in one of
\* three lists scores 1/61, 1st in all three 3/61).
C11_FusionExact ==
  callee = "reciprocalRankFusion" =>
    /\ ~callOutcome[1].threw
    /\ FusionExact(callArgs[1], callArgs[2], callOutcome[1].value)

IdsUnique(S) == \A c, d \in S : c.id = d.id => c = d

\* the same, for lists none of whose chunks share an id
C11_ExactWhenIdsUnique ==
  (callee = "reciprocalRankFusion" /\ IdsUnique(Appearing(callArgs[1]))) =>
    /\ ~callOutcome[1].threw
    /\ FusionExact(callArgs[1], callArgs[2], callOutcome[1].value)

(***************************************************************************)
(* BM25Index.search on a freshly built lexical index                       *)
(***************************************************************************)
MaxBM25Docs == 3  \* most chunks a lexical index is built over

DocTexts == { <<>>, <<"a">>, <<"b">>, <<"a", " ", "a">>, <<"a", " ", "B">> }

\* chunk k of file f is the declaration on line k, its code taken from codes
BM25Chunks(codes) ==
  [k \in 1..Len(codes) |->
     createChunk(<<"f">>, TypeScript,
                 Decl(<<LowerLetters[k]>>, k, k, codes[k], <<>>))]

BM25Queries == { <<"a">>, <<"A", ".", "b">>, <<"c">> }

BM25IndexSearchCall ==
  /\ callee = "none"
  /\ \E codes \in SeqsUpTo(DocTexts, MaxBM25Docs), indexType \in {"code", "text"},
        query \in BM25Queries, topK \in 1..MaxTopK :
       LET index == BM25IndexBuild(indexType, BM25Chunks(codes))
       IN /\ callee' = "BM25Index.search"
          /\ callArgs' = <<index, query, topK>>
          /\ callOutcome' = Returned(BM25IndexSearch(index, query, topK))

MaxTokenizeLen == 3  \* longest text given to tokenize directly

\* an upper-case and a lower-case letter, a digit, the underscore, a space,
\* a punctuation character and a letter outside ASCII
TokenizeChars == {"a", "B", "1", "_", " ", "-", "é"}

tokenizeCall ==
  /\ callee = "none"
  /\ \E text \in SeqsUpTo(TokenizeChars, MaxTokenizeLen) :
       /\ callee' = "tokenize"
       /\ callArgs' = <<text>>
       /\ callOutcome' = Returned(tokenize(text))

InitBM25 == NoCall /\ RerankInit /\ NoGraph /\ NoIndex

NextBM25 ==
  \/ BM25IndexSearchCall
       /\ UNCHANGED <<rerankVars, graphVars, indexVars, buildVars, searchVars>>
  \/ tokenizeCall
       /\ UNCHANGED <<rerankVars, graphVars, indexVars, buildVars, searchVars>>
  \/ CallReturn
       /\ UNCHANGED <<rerankVars, graphVars, indexVars, buildVars, searchVars>>

SpecBM25 == InitBM25 /\ [][NextBM25]_vars

\* the score of document i of the index for the query
DocScore(index, query, i) ==
  calculateBM25Score(tokenize(query), index.documents[i], index.idf,
                     index.avgDocLength)

SharesTerm(index, query, i) ==
  Range(tokenize(query)) \cap Range(index.documents[i]) # {}

\* positions in the index of the chunk of a result entry
PositionsOf(index, entry) ==
  {i \in 1..Len(index.chunks) : index.chunks[i] = entry.chunk}

BM25SearchExact(index, query, topK, out) ==
  LET positive == {i \in 1..Len(index.chunks) : DocScore(index, query, i) > 0}
      pos(k) == SetMin(PositionsOf(index, out[k]))
  IN /\ \A i \in 1..Len(index.chunks) :
          ~SharesTerm(index, query, i) => DocScore(index, query, i) = 0
     /\ Len(out) = Min(topK, Cardinality(positive))
     /\ \A k \in 1..Len(out) :
          /\ PositionsOf(index, out[k]) # {}
          /\ pos(k) \in positive
          /\ out[k].score = NumScore(DocScore(index, query, pos(k)))
          /\ out[k].score.v > 0
          /\ SharesTerm(index, query, pos(k))
          /\ \A j \in (k + 1)..Len(out) :
               \/ out[k].score.v > out[j].score.v
               \/ out[k].score.v = out[j].score.v /\ pos(k) < pos(j)
          /\ \A i \in positive :
               (\A j \in 1..Len(out) : pos(j) # i) =>
                 \/ DocScore(index, query, i) < out[k].score.v
                 \/ DocScore(index, query, i) = out[k].score.v /\ pos(k) < i

\* C12: BM25Index.search returns only chunks of score > 0 (a document with
\* none of the query's terms scores exactly 0 and is left out), in descending
\* order of score, equal scores in chunk order, cut to topK.
C12_BM25SearchPositiveSortedStable ==
  callee = "BM25Index.search" =>
    /\ ~callOutcome[1].threw
    /\ BM25SearchExact(callArgs[1], callArgs[2], callArgs[3], callOutcome[1].value)

\* two chunks tie, a third holds no query term and is left out
C12_Witness ==
  /\ callee = "BM25Index.search"
  /\ Len(callArgs[1].chunks) = 3
  /\ Len(callOutcome[1].value) = 2
  /\ callOutcome[1].value[1].score = callOutcome[1].value[2].score
  /\ \E i \in 1..3 : ~SharesTerm(callArgs[1], callArgs[2], i)

(***************************************************************************)
(* cosineSimilarity, vectorSearch and rerankByEmbedding called directly    *)
(***************************************************************************)
MaxVectorChunks == 3  \* most chunks handed to vectorSearch / rerankByEmbedding

\* chunk.embedding: absent, of the query's dimension, or of another one
EmbeddingOptions ==
  { <<>>, << <<1, 0>> >>, << <<0, 1>> >>, << <<1, 1>> >>, << <<1>> >> }

VectorQueries == { <<1, 0>>, <<2, 1>> }

\* chunk k of file f is the declaration on line k, embedded as embeddings[k]
VectorChunks(embeddings) ==
  [k \in 1..Len(embeddings) |->
     [createChunk(<<"f">>, TypeScript,
                  Decl(<<LowerLetters[k]>>, k, k, <<LowerLetters[k]>>, <<>>))
        EXCEPT !.embedding = embeddings[k]]]

cosineSimilarityCall ==
  /\ callee = "none"
  /\ \E a \in VectorQueries \cup {<<1>>, <<>>},
        b \in VectorQueries \cup {<<1>>, <<0, 1>>} :
       /\ callee' = "cosineSimilarity"
       /\ callArgs' = <<a, b>>
       /\ callOutcome' = IF cosineSimilarityThrows(a, b)
                         THEN Thrown(DimensionsError)
                         ELSE Returned(cosineSimilarity(a, b))

vectorSearchCall ==
  /\ callee = "none"
  /\ \E queryEmbedding \in VectorQueries,
        embeddings \in SeqsUpTo(EmbeddingOptions, MaxVectorChunks),
        topK \in 1..MaxTopK :
       LET chunks == VectorChunks(embeddings)
       IN /\ callee' = "vectorSearch"
          /\ callArgs' = <<queryEmbedding, chunks, topK>>
          /\ callOutcome' =
               IF vectorSearchThrows(queryEmbedding, chunks)
               THEN Thrown(DimensionsError)
               ELSE Returned(vectorSearch(queryEmbedding, chunks, topK))

rerankByEmbeddingCall ==
  /\ callee = "none"
  /\ \E queryEmbedding \in VectorQueries,
        embeddings \in SeqsUpTo(EmbeddingOptions, MaxVectorChunks),
        topK \in 1..MaxTopK :
       LET chunks == VectorChunks(embeddings)
           candidates == [k \in 1..Len(chunks) |->
                            [chunk |-> chunks[k], score |-> RrfScore(1, 60 + k)]]
       IN /\ callee' = "rerankByEmbedding"
          /\ callArgs' = <<queryEmbedding, candidates, topK>>
          /\ callOutcome' =
               IF rerankByEmbeddingThrows(queryEmbedding, candidates)
               THEN Thrown(DimensionsError)
               ELSE Returned(rerankByEmbedding(queryEmbedding, candidates, topK))

InitVector == NoCall /\ RerankInit /\ NoGraph /\ NoIndex

NextVector ==
  \/ cosineSimilarityCall
       /\ UNCHANGED <<rerankVars, graphVars, indexVars, buildVars, searchVars>>
  \/ vectorSearchCall
       /\ UNCHANGED <<rerankVars, graphVars, indexVars, buildVars, searchVars>>
  \/ rerankByEmbeddingCall
       /\ UNCHANGED <<rerankVars, graphVars, indexVars, buildVars, searchVars>>
  \/ CallReturn
       /\ UNCHANGED <<rerankVars, graphVars, indexVars, buildVars, searchVars>>

SpecVector == InitVector /\ [][NextVector]_vars

\* the similarity of the query to an embedded chunk
Similarity(queryEmbedding, chunk) ==
  cosineSimilarity(queryEmbedding, chunk.embedding[1])

VectorSearchExact(queryEmbedding, chunks, topK, out) ==
  LET embedded == {i \in 1..Len(chunks) : HasEmbedding(chunks[i])}
      found == {out[k].chunk : k \in 1..Len(out)}
  IN /\ Len(out) = Min(topK, Cardinality(embedded))
     /\ Cardinality(found) = Len(out)
     /\ \A k \in 1..Len(out) :
          /\ \E i \in embedded : chunks[i] = out[k].chunk
          /\ out[k].score = Similarity(queryEmbedding, out[k].chunk)
          /\ \A j \in (k + 1)..Len(out) : ~ScoreGt(out[j].score, out[k].score)
          /\ \A i \in embedded :
               chunks[i] \notin found =>
                 ~ScoreGt(Similarity(queryEmbedding, chunks[i]), out[k].score)

\* C13: vectorSearch scores only the chunks that have an embedding: a chunk
\* without one is never in the result, and the result holds the
\* min(topK, number of embedded chunks) chunks of highest cosine similarity,
\* in descending order.
C13_VectorSearchSkipsUnembedded ==
  (callee = "vectorSearch" /\ ~callOutcome[1].threw) =>
    VectorSearchExact(callArgs[1], callArgs[2], callArgs[3], callOutcome[1].value)

\* a chunk without embedding stands between two embedded ones, both returned
C13_Witness ==
  /\ callee = "vectorSearch"
  /\ ~callOutcome[1].threw
  /\ Len(callArgs[2]) = 3
  /\ ~HasEmbedding(callArgs[2][2])
  /\ Len(callOutcome[1].value) = 2
  /\ ScoreGt(callOutcome[1].value[1].score, callOutcome[1].value[2].score)
  /\ callOutcome[1].value[1].chunk = callArgs[2][3]

\* an embedded chunk (or candidate's chunk) of another dimension than the query
Mismatched(queryEmbedding, chunk) ==
  HasEmbedding(chunk) /\ Len(chunk.embedding[1]) # Len(queryEmbedding)

ThrewDimensions ==
  /\ callOutcome[1].threw
  /\ callOutcome[1].value = "Vectors must have same dimensions"

\* C14: cosineSimilarity throws 'Vectors must have same dimensions' whenever
\* its vectors differ in length; vectorSearch and rerankByEmbedding throw
\* that error when any embedded chunk handed to them has an embedding of
\* another length than the query's, and return nothing.
C14_DimensionMismatchPropagates ==
  /\ callee = "cosineSimilarity" =>
       IF Len(callArgs[1]) # Len(callArgs[2])
       THEN ThrewDimensions
       ELSE ~callOutcome[1].threw
  /\ callee = "vectorSearch" =>
       IF \E i \in 1..Len(callArgs[2]) : Mismatched(callArgs[1], callArgs[2][i])
       THEN ThrewDimensions
       ELSE ~callOutcome[1].threw
  /\ callee = "rerankByEmbedding" =>
       IF \E i \in 1..Len(callArgs[2]) :
            Mismatched(callArgs[1], callArgs[2][i].chunk)
       THEN ThrewDimensions
       ELSE ~callOutcome[1].threw

\* the last of three candidates alone has a mismatched embedding
C14_Witness ==
  /\ callee \in {"vectorSearch", "rerankByEmbedding"}
  /\ callOutcome[1].threw
  /\ Len(callArgs[2]) = 3
  /\ callee = "vectorSearch" =>
       /\ Mismatched(callArgs[1], callArgs[2][3])
       /\ \A i \in 1..2 : HasEmbedding(callArgs[2][i])
                            /\ ~Mismatched(callArgs[1], callArgs[2][i])
  /\ callee = "rerankByEmbedding" =>
       /\ Mismatched(callArgs[1], callArgs[2][3].chunk)
       /\ \A i \in 1..2 : HasEmbedding(callArgs[2][i].chunk)
                            /\ ~Mismatched(callArgs[1], callArgs[2][i].chunk)

(***************************************************************************)
(* chunkFile on one file                                                   *)
(***************************************************************************)
MaxMarkdownLines == 3  \* most lines of a markdown file

\* the lines markdown files are made of: headings of levels 1, 2 and 4, a
\* heading line ending in a carriage return, bold text, plain text and an
\* empty line
MarkdownLines ==
  { <<"#", " ", "d", "o", "c", "s">>,
    <<"#", "#", " ", "a", "b", " ", " ", "C", "d">>,
    <<"#", "#", "#", "#", " ", "d", "e", "e", "p">>,
    <<"#", " ", "d", "o", "c", "s", "\r">>,
    <<"*", "*", "R", "e", "a", "d", "m", "e", "*", "*", " ", "x">>,
    <<"t", "e", "x", "t">>,
    <<>> }

MarkdownTexts ==
  {Join(lines, <<"\n">>) : lines \in SeqsUpTo(MarkdownLines, MaxMarkdownLines)}

MarkdownPaths == { <<"d", ".", "m", "d">>, <<"d", "o", "c", "s", "/", "R", "E", "A", "D", "M", "E", ".", "m", "d">> }

MarkdownFiles ==
  {[path |-> path, content |-> PlainContent(text)] :
     path \in MarkdownPaths, text \in MarkdownTexts}

\* a class declared inside a method of a class, a method after it, and a
\* function after the class
NestedClassFile ==
  LET text == <<"c", "l", "a", "s", "s", " ", "A", " ", "{", "\n", " ", "m", "(", ")", " ", "{", " ", "c", "l", "a", "s", "s", " ", "B", " ", "{", " ", "n", "(", ")", " ", "{", "}", " ", "}", " ", "}", "\n", " ", "p", "(", ")", " ", "{", "}", "\n", "}", "\n", "f", "u", "n", "c", "t", "i", "o", "n", " ", "f", "(", ")", " ", "{", "}">>
  IN [path |-> <<"n", ".", "t", "s">>,
      content |-> ParsedContent(text,
       <<SyntaxNode(text, "class_declaration", <<<<"A">>>>, 0, 47,
       <<SyntaxNode(text, "class_body", <<>>, 8, 47,
         <<SyntaxNode(text, "method_definition", <<<<"m">>>>, 11, 37,
           <<SyntaxNode(text, "statement_block", <<>>, 15, 37,
             <<SyntaxNode(text, "class_declaration", <<<<"B">>>>, 17, 35,
               <<SyntaxNode(text, "method_definition", <<<<"n">>>>, 27, 33,
                 <<>>)>>)>>)>>),
         SyntaxNode(text, "method_definition", <<<<"p">>>>, 39, 45,
           <<>>)>>)>>),
       SyntaxNode(text, "function_declaration", <<<<"f">>>>, 48, 63,
       <<>>)>>)]

\* a class with one method on a line of its own
ClassFile ==
  LET text == <<"c", "l", "a", "s", "s", " ", "A", " ", "{", "\n", " ", "m", "(", ")", " ", "{", "}", "\n", "}">>
  IN [path |-> <<"k", ".", "t", "s">>,
      content |-> ParsedContent(text,
       <<SyntaxNode(text, "class_declaration", <<<<"A">>>>, 0, 19,
       <<SyntaxNode(text, "method_definition", <<<<"m">>>>, 11, 17,
         <<>>)>>)>>)]

\* a documented function filling its lines, named as its file
FunctionFile ==
  LET text == <<"/", "*", "*", " ", "d", " ", "*", "/", "\n", "f", "u", "n", "c", "t", "i", "o", "n", " ", "f", "o", "o", "B", "a", "r", "(", "\n", ")", " ", "{", "}">>
  IN [path |-> <<"f", "o", "o", "B", "a", "r", ".", "t", "s">>,
      content |-> ParsedContent(text,
       <<SyntaxNode(text, "function_declaration", <<<<"f", "o", "o", "B", "a", "r">>>>, 9, 30,
       <<>>)>>)]

\* two functions on one line
SameLineFile ==
  LET text == <<"f", "u", "n", "c", "t", "i", "o", "n", " ", "f", "(", ")", "{", "}", " ", "f", "u", "n", "c", "t", "i", "o", "n", " ", "g", "(", ")", "{", "}">>
  IN [path |-> <<"s", ".", "j", "s">>,
      content |-> ParsedContent(text,
       <<SyntaxNode(text, "function_declaration", <<<<"f">>>>, 0, 14,
       <<>>),
       SyntaxNode(text, "function_declaration", <<<<"g">>>>, 15, 29,
       <<>>)>>)]

\* a Python class with a method
PythonFile ==
  LET text == <<"c", "l", "a", "s", "s", " ", "C", ":", "\n", " ", "d", "e", "f", " ", "m", "(", "s", "e", "l", "f", ")", ":", " ", "p", "a", "s", "s">>
  IN [path |-> <<"p", ".", "p", "y">>,
      content |-> ParsedContent(text,
       <<SyntaxNode(text, "class_definition", <<<<"C">>>>, 0, 27,
       <<SyntaxNode(text, "function_definition", <<<<"m">>>>, 10, 27,
         <<>>)>>)>>)]

\* a Rust struct and its impl block
RustFile ==
  LET text == <<"s", "t", "r", "u", "c", "t", " ", "S", ";", "\n", "i", "m", "p", "l", " ", "S", " ", "{", " ", "f", "n", " ", "g", "(", ")", " ", "{", "}", " ", "}">>
  IN [path |-> <<"r", ".", "r", "s">>,
      content |-> ParsedContent(text,
       <<SyntaxNode(text, "struct_item", <<<<"S">>>>, 0, 9,
       <<>>),
       SyntaxNode(text, "impl_item", <<<<"S">>>>, 10, 30,
       <<SyntaxNode(text, "function_item", <<<<"g">>>>, 19, 28,
         <<>>)>>)>>)]

\* an arrow function, which has no name, bound to a constant
ArrowFile ==
  LET text == <<"c", "o", "n", "s", "t", " ", "h", " ", "=", " ", "(", ")", " ", "=", ">", " ", "{", "}">>
  IN [path |-> <<"h", ".", "t", "s">>,
      content |-> ParsedContent(text,
       <<SyntaxNode(text, "lexical_declaration", <<>>, 0, 18,
       <<SyntaxNode(text, "arrow_function", <<>>, 10, 18,
         <<>>)>>)>>)]

\* a file of a supported language the parser fails on, and files the
\* chunker does not index
OtherFiles ==
  { [path |-> <<"x", ".", "t", "s">>, content |-> PlainContent(<<"f", "(">>)],
    [path |-> <<"c", ".", "b", "i", "n">>, content |-> PlainContent(<<"f">>)],
    [path |-> <<"M", "a", "k", "e", "f", "i", "l", "e">>, content |-> PlainContent(<<"f">>)] }

CodeFiles ==
  {NestedClassFile, ClassFile, FunctionFile, SameLineFile, PythonFile, RustFile,
   ArrowFile}

\* manifests: JSON objects, JSON null, a JSON number and text that is no JSON
ManifestContents ==
  { JsonContent(<<"{", "}">>, JsonValue("object", <<>>, <<>>, <<>>, <<>>)),
    JsonContent(<<"{", "\"", "n", "a", "m", "e", "\"", ":", "\"", "d", "e", "m", "o", "\"", "}">>,
                JsonValue("object", <<<<"d", "e", "m", "o">>>>, <<<<"D", "e", "m", "o", " ", "t", "o", "o", "l", " ", "d", "e", "m", "o">>>>,
                          <<<<"D", "e", "m", "o">>>>, <<<<"d", "e", "m", "o">>>>)),
    JsonContent(<<"n", "u", "l", "l">>, JsonValue("null", <<>>, <<>>, <<>>, <<>>)),
    JsonContent(<<"5">>, JsonValue("other", <<>>, <<>>, <<>>, <<>>)),
    JsonContent(<<"d", "e", "m", "o", "\n", "d", "e", "m", "o", " ", "t", "o", "o", "l">>, NotJson) }

ManifestPaths == { <<"p", "a", "c", "k", "a", "g", "e", ".", "j", "s", "o", "n">>, <<"s", "u", "b", "/", "g", "o", ".", "m", "o", "d">> }

ManifestFiles ==
  {[path |-> path, content |-> content] :
     path \in ManifestPaths, content \in ManifestContents}

ChunkerFiles == MarkdownFiles \cup CodeFiles \cup OtherFiles \cup ManifestFiles

chunkFileCall ==
  /\ callee = "none"
  /\ \E file \in ChunkerFiles :
       /\ callee' = "chunkFile"
       /\ callArgs' = <<file.path, file.content>>
       /\ callOutcome' =
            IF chunkFileThrows(file.path, file.content) THEN Thrown(ChunkError)
            ELSE Returned(chunkFile(file.path, file.content))

MaxJSDocLines == 3  \* lines chosen freely above the padding

JSDocWindow == 10

\* a line comment, a blank line, a line of code, a docstring delimiter and
\* an indented block-comment line
JSDocLineTexts ==
  { <<"/", "/", "a">>, <<>>, <<"x">>, <<"\"", "\"", "\"">>, <<" ", "*", "b">> }

\* the lines above a declaration: freely chosen lines, then a padding of
\* comment lines or of blank lines that fills the window or not
JSDocLinesAbove ==
  {top \o [k \in 1..pad |-> line] :
     top \in SeqsUpTo(JSDocLineTexts, MaxJSDocLines),
     pad \in {0, JSDocWindow - 2, JSDocWindow - 1},
     line \in { <<"/", "/", "p">>, <<>> }}

\* extractJSDoc for a declaration on the line after the given lines
extractJSDocCall ==
  /\ callee = "none"
  /\ \E above \in JSDocLinesAbove :
       LET lines == Append(above, <<"f">>)
           text == Join(lines, <<"\n">>)
           node == FunctionNode(text, <<"f">>, Len(text) - 1, Len(text))
       IN /\ callee' = "extractJSDoc"
          /\ callArgs' = <<node, lines>>
          /\ callOutcome' = Returned(extractJSDoc(node, lines))

InitChunk == NoCall /\ RerankInit /\ NoGraph /\ NoIndex

NextChunk ==
  \/ chunkFileCall
       /\ UNCHANGED <<rerankVars, graphVars, indexVars, buildVars, searchVars>>
  \/ extractJSDocCall
       /\ UNCHANGED <<rerankVars, graphVars, indexVars, buildVars, searchVars>>
  \/ CallReturn
       /\ UNCHANGED <<rerankVars, graphVars, indexVars, buildVars, searchVars>>

SpecChunk == InitChunk /\ [][NextChunk]_vars

\* chunkFile has returned chunks
ChunkFileReturned ==
  callee = "chunkFile" /\ ~callOutcome[1].threw

\* lines startLine..endLine (1-indexed, inclusive) of a content, joined
LinesOf(content, startLine, endLine) ==
  Join(SubSeq(SplitOn(content, "\n"), startLine, endLine), <<"\n">>)

RoundTrips(content, chunk) ==
  /\ chunk.startLine <= chunk.endLine
  /\ LinesOf(content, chunk.startLine, chunk.endLine) = chunk.code

\* C15: every chunk chunkFile returns has startLine <= endLine, and lines
\* startLine..endLine of the content, joined, are its code
C15_CodeIsItsLines ==
  ChunkFileReturned =>
    \A k \in 1..Len(callOutcome[1].value) :
      RoundTrips(callArgs[2].text, callOutcome[1].value[k])

\* the same of the chunks of non-code files, and of the code chunks whose
\* node starts at the start of a line and ends at the end of one
StartsAndEndsLines(content, chunk) ==
  \E start \in 0..Len(content), end \in 0..Len(content) :
    /\ start <= end
    /\ SubSeq(content, start + 1, end) = chunk.code
    /\ RowOf(content, start) + 1 = chunk.startLine
    /\ RowOf(content, end) + 1 = chunk.endLine
    /\ start = 0 \/ content[start] = "\n"
    /\ end = Len(content) \/ content[end + 1] = "\n"

C15_WholeLineChunksRoundTrip ==
  ChunkFileReturned =>
    \A k \in 1..Len(callOutcome[1].value) :
      LET chunk == callOutcome[1].value[k]
      IN (shouldIndexNonCode(callArgs[1])
            \/ StartsAndEndsLines(callArgs[2].text, chunk))
           => RoundTrips(callArgs[2].text, chunk)

\* C16: chunkFile never throws, and returns no chunk for a path that is
\* neither of a supported language nor markdown nor a manifest, and for a
\* file of a supported language the parser fails on
C16_ChunkFileNeverThrows ==
  callee = "chunkFile" =>
    /\ ~callOutcome[1].threw
    /\ (~shouldIndexNonCode(callArgs[1])
          /\ (~isSupported(callArgs[1]) \/ callArgs[2].tree = <<>>))
         => callOutcome[1].value = <<>>

\* the same but for the manifests whose content is the JSON value null
C16_ThrowsOnlyOnNullManifest ==
  callee = "chunkFile" =>
    /\ callOutcome[1].threw
         <=> (isMetadata(callArgs[1]) /\ ~isMarkdown(callArgs[1])
                /\ callArgs[2].json.kind = "null")
    /\ (~shouldIndexNonCode(callArgs[1])
          /\ (~isSupported(callArgs[1]) \/ callArgs[2].tree = <<>>))
         => (~callOutcome[1].threw /\ callOutcome[1].value = <<>>)

\* the parent class each chunk of a subtree should record, in the order the
\* walk emits the chunks: for a method the name of the innermost class node
\* enclosing it, for any other chunk none
RECURSIVE ExpectedParents(_, _, _)
RECURSIVE ExpectedParentsOfChildren(_, _, _, _)
ExpectedParents(node, language, enclosing) ==
  LET chunkType == MapGet(NODE_TYPE_MAPPINGS(language), node.type)
      inside == IF chunkType = <<ClassType>> THEN <<extractName(node)>>
                ELSE enclosing
      own == IF chunkType = <<>> THEN <<>>
             ELSE IF chunkType = <<MethodType>> THEN <<enclosing>>
             ELSE << <<>> >>
  IN own \o ExpectedParentsOfChildren(node.children, 1, language, inside)

ExpectedParentsOfChildren(children, k, language, enclosing) ==
  IF k > Len(children) THEN <<>>
  ELSE ExpectedParents(children[k], language, enclosing)
         \o ExpectedParentsOfChildren(children, k + 1, language, enclosing)

\* chunkFile has returned the chunks of a parsed source file
CodeFileChunked ==
  /\ ChunkFileReturned
  /\ ~shouldIndexNonCode(callArgs[1])
  /\ parseFile(callArgs[1], callArgs[2]) # <<>>

\* C17: every method chunk records the name of the innermost class
\* enclosing its node, and a chunk outside any class records no parent class
C17_ParentClassIsInnermost ==
  CodeFileChunked =>
    LET expected == ExpectedParents(callArgs[2].tree[1].rootNode,
                                    detectLanguage(callArgs[1])[1], <<>>)
        chunks == callOutcome[1].value
    IN /\ Len(chunks) = Len(expected)
       /\ \A k \in 1..Len(chunks) : chunks[k].parentClass = expected[k]

\* whether a class node lies inside another class node
RECURSIVE HasNestedClass(_, _, _)
HasNestedClass(node, language, inClass) ==
  LET isClass == MapGet(NODE_TYPE_MAPPINGS(language), node.type) = <<ClassType>>
  IN \/ isClass /\ inClass
     \/ \E k \in 1..Len(node.children) :
          HasNestedClass(node.children[k], language, inClass \/ isClass)

\* the same holds of the files in which no class lies inside another
C17_ParentClassWithoutNesting ==
  (CodeFileChunked
     /\ ~HasNestedClass(callArgs[2].tree[1].rootNode,
                        detectLanguage(callArgs[1])[1], FALSE)) =>
    LET expected == ExpectedParents(callArgs[2].tree[1].rootNode,
                                    detectLanguage(callArgs[1])[1], <<>>)
        chunks == callOutcome[1].value
    IN /\ Len(chunks) = Len(expected)
       /\ \A k \in 1..Len(chunks) : chunks[k].parentClass = expected[k]

\* C18: the keywords of every chunk chunkFile returns hold no value twice
C18_KeywordsDistinct ==
  ChunkFileReturned =>
    \A k \in 1..Len(callOutcome[1].value) :
      NoDuplicates(callOutcome[1].value[k].keywords)

\* the same of the chunks of source files and manifests, and of markdown
\* files without sections
C18_CodeAndManifestKeywordsDistinct ==
  ChunkFileReturned =>
    \A k \in 1..Len(callOutcome[1].value) :
      LET chunk == callOutcome[1].value[k]
      IN (chunk.type # ReadmeType
            /\ (chunk.type = DocumentationType
                  => chunk.name = FileNameOr(callArgs[1], <<>>)))
           => NoDuplicates(chunk.keywords)

\* a heading of level 1 to 3: one to three "#", whitespace, and a title
\* that runs to the end of the line
IsHeading(line) ==
  \E level \in 1..3, title \in 1..Len(line) :
    /\ level + 1 < title
    /\ \A i \in 1..level : line[i] = "#"
    /\ \A i \in (level + 1)..(title - 1) : line[i] \in Whitespace
    /\ \A i \in title..Len(line) : line[i] \notin LineTerminators

\* the lines of a content that are headings
HeadingLines(content) ==
  {i \in 1..Len(SplitOn(content, "\n")) : IsHeading(SplitOn(content, "\n")[i])}

\* chunkFile has returned the chunks of a markdown file that is no README
\* and has a heading
SectionsChunked ==
  /\ ChunkFileReturned
  /\ isMarkdown(callArgs[1]) /\ ~isReadme(callArgs[1])
  /\ HeadingLines(callArgs[2].text) # {}

CompressionSucceeds ==
  /\ bpc = "compress"
  /\ ci \in 1..Len(allChunks)
  /\ Len(allChunks') = Len(allChunks)
  /\ ~allChunks[ci].compressed
  /\ allChunks'[ci].compressed

SameIdentity(before, after) ==
  /\ after.id = before.id
  /\ after.filePath = before.filePath
  /\ after.startLine = before.startLine
  /\ after.endLine = before.endLine

\* C20: when the compression of a chunk succeeds the chunk is marked
\* compressed, its originalSize is the length its code had before, and its
\* id, filePath, startLine and endLine are unchanged
C20_CompressionRecordsOriginalSize ==
  [][CompressionSucceeds =>
       /\ allChunks'[ci].compressed
       /\ allChunks'[ci].originalSize = <<Len(allChunks[ci].code)>>
       /\ SameIdentity(allChunks[ci], allChunks'[ci])]_vars

\* the same with the size that is recorded: the length of the compressed
\* code
C20_CompressionRecordsCompressedSize ==
  [][CompressionSucceeds =>
       /\ allChunks'[ci].compressed
       /\ allChunks'[ci].originalSize = <<Len(allChunks'[ci].code)>>
       /\ SameIdentity(allChunks[ci], allChunks'[ci])]_vars

(***************************************************************************)
(* Queries against a built index                                           *)
(***************************************************************************)

\* a step of search or searchWithBreakdown: the call, one of its awaited
\* responses, or its return
QueryStep ==
  \/ searchVars' # searchVars
  \/ rerankVars' # rerankVars

C22_ChunkIdsUnique ==
  ChunkFileReturned =>
    \A i, j \in 1..Len(callOutcome[1].value) :
      callOutcome[1].value[i].id = callOutcome[1].value[j].id => i = j

(***************************************************************************)
(* tokenize                                                                *)
(***************************************************************************)
IsLetterOrDigit(c) ==
  c \in Range(LowerLetters) \cup Range(UpperLetters) \cup Range(DigitChars)

\* the maximal runs of characters of text that satisfy In, in order
MaximalRuns(text, In(_)) ==
  LET starts == {i \in 1..Len(text) :
                   In(text[i]) /\ (i = 1 \/ ~In(text[i - 1]))}
      start(k) == CHOOSE i \in starts :
                    Cardinality({j \in starts : j < i}) = k - 1
      end(i) == CHOOSE e \in i..Len(text) :
                  /\ \A j \in i..e : In(text[j])
                  /\ (e = Len(text) \/ ~In(text[e + 1]))
  IN [k \in 1..Cardinality(starts) |-> SubSeq(text, start(k), end(start(k)))]

\* C25 as stated: tokenize returns, in order, exactly the maximal runs of
\* letters and digits of the lowercased text, none of them empty.
C25_TokensAreAlphanumericRuns ==
  callee = "tokenize" =>
    /\ ~callOutcome[1].threw
    /\ callOutcome[1].value =
         MaximalRuns(toLowerCase(callArgs[1]), IsLetterOrDigit)
    /\ \A k \in 1..Len(callOutcome[1].value) : callOutcome[1].value[k] # <<>>

\* what the code does: the runs are those of the characters of the regular
\* expression class \w, ASCII letters, digits and the underscore
C25_TokensAreWordRuns ==
  callee = "tokenize" =>
    /\ ~callOutcome[1].threw
    /\ callOutcome[1].value = MaximalRuns(toLowerCase(callArgs[1]), IsWordChar)
    /\ \A k \in 1..Len(callOutcome[1].value) : callOutcome[1].value[k] # <<>>

(***************************************************************************)
(* Compression of large chunks: the sequential compressChunks of the full  *)
(* index inside build(), and the parallel compressChunks of the simplified *)
(* index called directly                                                   *)
(***************************************************************************)
MAX_COMPRESSIBLE_SIZE == 30000

COMPRESSION_BATCH_SIZE == 5

\* chunks.filter(...): the positions in chunks of the chunks to compress
chunksToCompress(chunks, threshold) ==
  LET found == {i \in 1..Len(chunks) :
                  /\ Len(chunks[i].code) > threshold
                  /\ Len(chunks[i].code) <= MAX_COMPRESSIBLE_SIZE}
  IN [k \in 1..Cardinality(found) |->
        CHOOSE i \in found : Cardinality({j \in found : j < i}) = k - 1]

\* the parallel compressChunks.  settled[k] is what Promise.allSettled holds
\* for the call on the k-th chunk to compress: the summary of a fulfilled
\* call, nothing for a rejected one.  The value is the chunks after the
\* results are processed, the number returned, and the summarizer calls
\* made (chunk position, batch, the size read before the call).
compressChunks(chunks, threshold, settled) ==
  LET todo == chunksToCompress(chunks, threshold)
      fulfilled(i) == {k \in 1..Len(todo) : todo[k] = i /\ settled[k] # <<>>}
  IN [chunks |->
        [i \in 1..Len(chunks) |->
           IF fulfilled(i) = {} THEN chunks[i]
           ELSE [chunks[i] EXCEPT
                   !.code = settled[CHOOSE k \in fulfilled(i) : TRUE][1],
                   !.compressed = TRUE,
                   !.originalSize = <<Len(chunks[i].code)>>]],
      compressed |-> Cardinality({k \in 1..Len(todo) : settled[k] # <<>>}),
      calls |->
        [k \in 1..Len(todo) |->
           [chunk |-> todo[k],
            batchNumber |-> ((k - 1) \div COMPRESSION_BATCH_SIZE) + 1,
            originalSize |-> Len(chunks[todo[k]].code)]]]

MaxCompressChunks == 2  \* most declarations of a file that is compressed

\* code lengths under and over the threshold, at and over the ceiling
CodeSizes == {1, 3, MAX_COMPRESSIBLE_SIZE, MAX_COMPRESSIBLE_SIZE + 1}

\* one file of functions of the given code lengths, one per line
\* chunk k is the function on line k of one file, its code of sizes[k]
\* characters
SizedChunks(sizes) ==
  [k \in 1..Len(sizes) |->
     createChunk(<<"z", ".", "t", "s">>, TypeScript,
                 Decl(<<"f">>, k, k, [i \in 1..sizes[k] |-> "x"] \o <<>>, <<>>))]

SizedChunkLists ==
  {SizedChunks(sizes) : sizes \in SeqsUpTo(CodeSizes, MaxCompressChunks) \ {<<>>}}

\* step 2 of build: the call this.compressChunks(allChunks) of the
\* sequential version, up to its first await
compressChunksSequentialCall ==
  /\ bpc = "idle"
  /\ thisConfig[1].enableCompression
  /\ \E chunks \in SizedChunkLists : compressChunksFrom(chunks, 1, 0)
  /\ UNCHANGED <<indexVars, berror, bprev>>

compressChunksCall ==
  /\ callee = "none"
  /\ \E chunks \in SizedChunkLists :
       LET threshold == thisConfig[1].compressionThreshold
       IN \E settled \in [1..Len(chunksToCompress(chunks, threshold)) ->
                            {<<>>} \cup {<<summary>> : summary \in Summaries}] :
            /\ callee' = "compressChunks"
            /\ callArgs' = <<chunks, threshold, settled>>
            /\ callOutcome' = Returned(compressChunks(chunks, threshold, settled))

\* the compression phase of a build, and direct calls of the parallel
\* compressChunks on the same chunks
InitCompress == RAGIndexNew(IndexConfig(TRUE)) /\ RerankInit /\ NoGraph /\ NoCall

NextCompress ==
  \/ compressChunksSequentialCall
       /\ UNCHANGED <<callVars, graphVars, rerankVars, searchVars>>
  \/ SummarizerSettle /\ UNCHANGED <<callVars, graphVars, rerankVars, searchVars>>
  \/ compressChunksCall
       /\ UNCHANGED <<rerankVars, graphVars, indexVars, buildVars, searchVars>>
  \/ CallReturn
       /\ UNCHANGED <<rerankVars, graphVars, indexVars, buildVars, searchVars>>

SpecCompress == InitCompress /\ [][NextCompress]_vars

\* the summarizer calls are made for chunks over the threshold and not over
\* the ceiling, and a chunk over the ceiling is returned as it was given
ParallelWithinCeiling ==
  callee = "compressChunks" =>
    /\ ~callOutcome[1].threw
    /\ \A k \in 1..Len(callOutcome[1].value.calls) :
         /\ callOutcome[1].value.calls[k].originalSize > callArgs[2]
         /\ callOutcome[1].value.calls[k].originalSize <= MAX_COMPRESSIBLE_SIZE
    /\ \A i \in 1..Len(callArgs[1]) :
         Len(callArgs[1][i].code) > MAX_COMPRESSIBLE_SIZE =>
           callOutcome[1].value.chunks[i] = callArgs[1][i]

\* C23 as stated: in both versions of compressChunks the summarizer is called
\* only for a chunk whose code is longer than the threshold and not longer
\* than the ceiling of 30000 characters, and a chunk over the ceiling keeps
\* its code.
C23_CompressedOnlyWithinCeiling ==
  /\ bpc = "compress" =>
       /\ Len(allChunks[ci].code) > thisConfig[1].compressionThreshold
       /\ Len(allChunks[ci].code) <= MAX_COMPRESSIBLE_SIZE
  /\ ParallelWithinCeiling

\* the parallel version alone keeps to the ceiling
C23_ParallelCompressedOnlyWithinCeiling == ParallelWithinCeiling

\* C24: when the summarizer call for a chunk fails, the chunk keeps its code
\* and is not marked compressed, a call that returns still compresses its
\* chunk, and compressChunks goes on (to the next chunk or, at the end, to
\* the embedding phase of build) without an error, in the sequential version
\* step by step and in the parallel version for every settled call.
C24_CompressionFailureIsIsolated ==
  /\ [][(bpc = "compress" /\ <<bpc, ci>>' # <<bpc, ci>>) =>
          /\ bpc' \in {"compress", "embed"}
          /\ berror' = <<>>
          /\ IF compressedCount' = compressedCount
             THEN /\ allChunks' = allChunks
                  /\ ~allChunks'[ci].compressed
             ELSE /\ allChunks'[ci].compressed
                  /\ \A i \in 1..Len(allChunks) :
                       i # ci => allChunks'[i] = allChunks[i]]_vars
  /\ [](callee = "compressChunks" =>
          /\ ~callOutcome[1].threw
          /\ \A k \in 1..Len(callOutcome[1].value.calls) :
               LET i == callOutcome[1].value.calls[k].chunk
               IN IF callArgs[3][k] = <<>>
                  THEN /\ callOutcome[1].value.chunks[i] = callArgs[1][i]
                       /\ ~callOutcome[1].value.chunks[i].compressed
                  ELSE /\ callOutcome[1].value.chunks[i].compressed
                       /\ callOutcome[1].value.chunks[i].code = callArgs[3][k][1])

\* in both versions the call for the first of two large chunks failed and
\* the second chunk was compressed; the build is in its embedding phase
C24_Witness ==
  /\ bpc = "embed"
  /\ Len(allChunks) = 2
  /\ Len(allChunks[1].code) > thisConfig[1].compressionThreshold
  /\ ~allChunks[1].compressed
  /\ allChunks[2].compressed
  /\ compressedCount = 1
  /\ berror = <<>>
  /\ callee = "compressChunks"
  /\ callArgs[3] = << <<>>, <<<<"g">>>> >>
  /\ callOutcome[1].value.compressed = 1

(***************************************************************************)
(* extractJSDoc                                                            *)
(***************************************************************************)
\* what extractJSDoc makes of the 0-based line i
KindOfLine(lines, i) == JSDocLineKind(trim(lines[i + 1]))

\* the 0-based lines extractJSDoc may look at for a node starting on row
JSDocWindowRows(row) ==
  {i \in 0..(row - 1) : i >= row - JSDocWindow}

\* the trimmed lines of the rows K, in source order, joined (as an option)
JoinedRows(lines, K) ==
  IF K = {} THEN <<>>
  ELSE <<Join([k \in 1..Cardinality(K) |->
                 trim(lines[(CHOOSE i \in K :
                               Cardinality({j \in K : j < i}) = k - 1) + 1])],
              <<"\n">>)>>

\* C26 as stated: the lines extractJSDoc collects are the lines of one
\* contiguous block of comment lines inside the 10 lines above the node that
\* ends on the line directly above the node, in source order.
C26_BlockIsContiguous ==
  callee = "extractJSDoc" =>
    LET row == callArgs[1].startRow
        lines == callArgs[2]
    IN \E m \in JSDocWindowRows(row) \cup {row} :
         /\ \A i \in m..(row - 1) :
              KindOfLine(lines, i) \in {"comment", "docstring"}
         /\ callOutcome[1].value = JoinedRows(lines, m..(row - 1))

\* C26, amended: inside the 10 lines above the node, the scan skips blank
\* lines, stops at the first line of code (not collected) or docstring
\* delimiter (collected), and collects in source order the comment lines
\* below the line it stopped at.
C26_BlockSkipsBlankLines ==
  callee = "extractJSDoc" =>
    LET row == callArgs[1].startRow
        lines == callArgs[2]
        window == JSDocWindowRows(row)
        stops == {i \in window : KindOfLine(lines, i) \in {"code", "docstring"}}
        stop == IF stops = {} THEN -1
                ELSE CHOOSE i \in stops : \A j \in stops : j <= i
        K == {i \in window :
                \/ i > stop /\ KindOfLine(lines, i) = "comment"
                \/ i = stop /\ KindOfLine(lines, i) = "docstring"}
    IN /\ ~callOutcome[1].threw
       /\ callOutcome[1].value = JoinedRows(lines, K)

\* two comment lines with a blank line between them were collected
C26_Witness ==
  /\ callee = "extractJSDoc"
  /\ callArgs[2] = << <<"/", "/", "a">>, <<>>, <<" ", "*", "b">>, <<"f">> >>
  /\ callOutcome[1].value = << <<"/", "/", "a", "\n", "*", "b">> >>

(***************************************************************************)
(* Builds that fail, and queries during a rebuild                          *)
(***************************************************************************)

\* C27: when build() has rejected, this.chunks, both BM25 indexes and the
\* hybrid search are the ones the index had when build() was called; a query
\* made since then has raised the not-built error if they were unset, and
\* otherwise has not raised it and has searched the hybrid search, hence the
\* chunks and indexes, of the earlier build.
C27_FailedBuildLeavesIndex ==
  bpc = "rejected" =>
    /\ IndexSnapshot = bprev[1]
    /\ spc # "idle" =>
         IF bprev[1].hybridSearch = <<>>
         THEN /\ spc = "threw"
              /\ serror = <<NotBuiltError>>
              /\ sissued = <<>>
         ELSE /\ serror # <<NotBuiltError>>
              /\ sused # <<>> =>
                   /\ sused = bprev[1].hybridSearch
                   /\ sused[1].chunks = bprev[1].chunks
                   /\ <<sused[1].codeBM25>> = bprev[1].codeBM25
                   /\ <<sused[1].textBM25>> = bprev[1].textBM25

\* a rebuild failed after a successful build, and a query has since been
\* answered with a chunk of the earlier build
C27_Witness ==
  /\ bpc = "rejected"
  /\ bprev[1].hybridSearch # <<>>
  /\ spc = "returned"
  /\ sused = bprev[1].hybridSearch
  /\ stage3 # <<>>

\* C28: the hybrid search a query reads is the one the index holds at that
\* moment, made by the last completed build from this.chunks and both BM25
\* indexes as that build set them; whatever a rebuild does afterwards, the
\* two lexical indexes the query ranks with are the indexes over the chunks
\* it ranks with, and every chunk it ranks, with its embedding, is one of
\* these chunks.
C28_QueryUsesOneBuild ==
  /\ [][(sused' # sused /\ sused' # <<>>) =>
          /\ sused' = hybridSearch
          /\ hybridSearch =
               <<HybridSearch(thisChunks, codeBM25[1], textBM25[1])>>]_vars
  /\ [](sused # <<>> =>
          /\ sused[1].codeBM25 = createCodeBM25(sused[1].chunks)
          /\ sused[1].textBM25 = createTextBM25(sused[1].chunks)
          /\ ChunksOf(stage1) \cup ChunksOf(stage2)
                \cup ChunksOf(stage3) \subseteq Range(sused[1].chunks))

\* a query read the index while a rebuild was running, the rebuild has
\* completed with other chunks, and the query is still ranking
C28_Witness ==
  /\ spc = "reranking"
  /\ bpc = "done"
  /\ bprev # <<>>
  /\ sused = bprev[1].hybridSearch
  /\ sused # hybridSearch
  /\ sused[1].chunks # thisChunks
  /\ stage1 # <<>>

(***************************************************************************)
(* embedChunks: what it returns                                            *)
(***************************************************************************)
\* the embedding the provider returned for the text of chunk i (an option):
\* chunk i is value number i - startIndex of the call of its batch
ReturnedFor(i) ==
  LET b == ((i - 1) \div BATCH_SIZE) + 1
      j == i - (b - 1) * BATCH_SIZE
  IN IF j <= Len(batchCalls[b].embeddings)
     THEN <<batchCalls[b].embeddings[j]>>
     ELSE <<>>

\* C29: when embedChunks has resolved, the list it returned (this.chunks)
\* has the length of its input, and its chunk i is input chunk i with the
\* embedding the provider returned for the text of chunk i, in whatever
\* order the calls returned; no step of embedChunks changes its input.
C29_EmbeddingsAttachedInOrder ==
  /\ [](bpc = "done" =>
          /\ Len(thisChunks) = Len(allChunks)
          /\ \A i \in 1..Len(allChunks) :
               /\ ReturnedFor(i) # <<>> =>
                    thisChunks[i] =
                      [allChunks[i] EXCEPT !.embedding = ReturnedFor(i)]
               /\ ReturnedFor(i) = <<>> => thisChunks[i] = allChunks[i])
  /\ [][(bpc = "embed" /\ bpc' # "idle") => allChunks' = allChunks]_vars

\* a build of more than one wave has resolved; the last chunk has the
\* embedding returned for it in the last batch
C29_Witness ==
  /\ bpc = "done"
  /\ Len(batchTasks) > PARALLEL_BATCHES
  /\ Len(thisChunks) = MaxEmbedChunks
  /\ thisChunks[MaxEmbedChunks].embedding = << <<MaxEmbedChunks, 1>> >>
  /\ allChunks[MaxEmbedChunks].embedding = <<>>

(***************************************************************************)
(* Stage 2 and candidates without embedding                                *)
(***************************************************************************)
Unembedded(results) ==
  {i \in 1..Len(results) : ~HasEmbedding(results[i].chunk)}

\* C30: every result of stage 2 has an embedding, so no stage-1 candidate
\* without embedding is in stage 2, gets a scoring call or is in the final
\* result; and rerankResults throws in stage 2 only when an embedded
\* candidate's embedding has another dimension than the query's, never for
\* a candidate without embedding.
C30_Stage2ResultsAreEmbedded ==
  /\ rpc \in {"stage3", "done"} =>
       /\ Unembedded(stage2) = {}
       /\ Unembedded(stage3) = {}
       /\ \A i \in Unembedded(stage1) :
            /\ stage1[i].chunk \notin ChunksOf(stage2)
            /\ stage1[i].chunk \notin ChunksOf(stage3)
            /\ \A k \in 1..Len(rankCalls) : rankCalls[k].chunk # stage1[i].chunk
  /\ rpc = "threw" =>
       \E i \in 1..Len(stage1) :
          Mismatched(rargs[1].queryEmbedding, stage1[i].chunk)

\* the pipeline returned a result although the best stage-1 candidate, found
\* by a lexical list, has no embedding
C30_Witness ==
  /\ rpc = "done"
  /\ stage1 # <<>>
  /\ ~HasEmbedding(stage1[1].chunk)
  /\ stage2 # <<>>
  /\ stage3 # <<>>
  /\ Len(stage2) < rargs[1].config.stage2TopK

====
